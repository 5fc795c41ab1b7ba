# TLA+ models of the JarJar kernel: memory, console, libc and services

This directory holds TLA+ models of JarJar's kernel (`src/`), the TLC
configurations that check them, and `PROJECT.json`. `PROJECT.json` records which
definition models which source lines (`map`), every run, the mutants that show
each checked property can fail, the findings and the hazards.

## 1. The system

The repository is a small x86-64 kernel booted by Limine. `spec.md` names its core,
the memory subsystem:

* **Physical frame allocator**: `src/kernel/src/pmm.c`, with the types in
  `kernel/memory.h`. It is a static `pmm_t` and a bitmap with one bit per 4 KiB
  frame (1 = used). The bitmap is stored in physical memory, in the first
  usable memory-map entry large enough to hold it.
  * `pmm_init` builds it from Limine's memory map.
  * `pmm_alloc_page` is a first-fit scan from index 0.
  * `pmm_free_page` clears one bit.
* **Address space manager**: `src/kernel/src/vmm.c`, with CR3 and `invlpg` from
  `cpu_low_level.c`. It runs four-level page tables in physical memory, reached
  through `PHYS_TO_VIRT` (`types.h`, a fixed 0xFFFF800000000000 offset).
  * `vmm_init` captures CR3 as the kernel's PML4 and sets EFER.NXE.
  * `vmm_create` allocates a PML4, copies entries 256..511 and zeroes 0..255.
  * `vmm_map` calls `get_or_create_table` three times and writes the leaf.
  * `vmm_switch` loads CR3.
* **Glue**: `memory.c`. `memory_init` calls `pmm_init`, with `vmm_init`
  commented out. `kmain` (`main.c`) never calls `memory_init`. `stubs.c` makes
  `kmalloc` return NULL.

The two components interact in two ways:

* vmm.c takes every table frame from `pmm_alloc_page`.
* The bitmap and the page tables are the same physical memory. A frame the
  allocator gets wrong is a page table that overwrites the bitmap, or the
  reverse.

Two consumers of the memory interface are modelled as well, because every
other component goes through them:

* **VGA console**: `src/kernel/src/console.c`. It is a static `main_console`
  (buffer, width, height, cursor, colour, cursor and scroll switches) and the
  80x25 VGA text memory it draws into. `console_putchar` handles control
  bytes, wraps lines and scrolls. `console_printf` formats with its own
  `itoa`/`uitoa`/`ltoa`/`ultoa` and passes each byte to `console_putchar`.
  pmm.c, vmm.c, jarfs.c, the GUI, the AI core and the shell all print
  through it. No code calls `console_init`.
* **libc**: `src/libc/src/string.c`, `stdlib.c`, `stdio.c`, `time.c` and
  `ctype.c`.
  These are pure functions over caller-owned arrays, except for
  `strtok_r`'s saved position and `rand`'s `rand_seed`. stdio.c formats
  into arrays with its own `vsnprintf`; its `printf`, `puts` and the rest
  forward to `console_printf` and `console_vprintf`. The shell builds its
  prompt with `snprintf(query, sizeof(query), ...)`. time.c's `strftime`
  formats each field through that `snprintf`, and `asctime` and `ctime`
  use `strftime` with a fixed format; nothing outside time.c calls them. jarfs.c, the GUI and the AI core copy
  names with `strncpy(dst, src, size - 1)`, and the AI core compares them
  with `strcasecmp`.

Four services sit on the kernel heap (`kmalloc`/`kfree`, declared in
`memory.h`, defined in `stubs.c` to return NULL and do nothing). No code
calls any of them (`kmain` only writes the framebuffer), so the models drive
them the way a boot, a power-off and a user at the shell would:

* **JarFS**: `src/filesystem/src/jarfs.c`. `jarfs_init` creates the VFS
  root and panics without it. `jarfs_format` writes a superblock and the root
  inode to a block device. `jarfs_mount` reads them back into a kmalloc'd
  mount, opens the root file and pushes the mount on `mount_list`.
  `jarfs_unmount` syncs, closes the root and frees the mount, and leaves it
  on `mount_list`. `jarfs_open` always opens the root inode, and
  `jarfs_read` reads only through `block[0]`.
* **GUI**: `src/gui/src/jarvis_gui.c`. `gui_init` builds a double-buffered
  framebuffer, rolling back on failure, then a window manager, a theme and
  two windows. It panics without a framebuffer or a window manager.
  `gui_shutdown` frees the window manager and the theme.
* **AI core**: `src/ai_core/src/jarvis_core.c`. `jarvis_core_init` creates
  the singleton `jarvis_instance`, a 3-layer neural network and an empty
  knowledge base. `jarvis_process_input` answers from the knowledge base or
  with a fixed text, and returns `JAR_INVAL` without an instance.
* **Shell**: `src/tools/src/shell.c`. Each turn of `shell_run` copies a line
  (in this build always the fixed `"help"`, shell.c:208; the model takes
  any of eight lines there, standing for keyboard input) into `shell_buffer`, splits it into `shell_argv` (blanks, and quotes that
  toggle a flag) and runs the command. An unknown command, and `jarvis`/`ai`
  with arguments, go to `jarvis_process_input`. Four handlers call functions
  no file defines, so shell.c does not link as it stands.

The services interact through the heap they share (one NULL kmalloc can end
the boot), and the shell through the AI core's singleton.

### Inventory

| part | state | operations | hard behaviour |
|---|---|---|---|
| pmm.c | `pmm` (total_pages, bitmap_size, bitmap_phys); the bitmap bytes; the Limine memmap, which `pmm_init` mutates | `pmm_init`, `pmm_alloc_page`, `pmm_free_page` | partial pages at the carve-out; the uninitialised tail byte; frame 0 returned as 0; unsorted maps |
| vmm.c | `kernel_vmm`; the page tables; CR3; EFER.NXE; the TLB | `vmm_init`, `vmm_create`, `get_or_create_table`, `vmm_map`, `vmm_switch` | NULL from a failed allocation used as a table; PAGE_MASK keeping NX; flags applied only when a table is created; higher half copied by value; stale TLB entries |
| memory.c | none | `memory_init` | call order (vmm_init missing) |
| console.c | `main_console`; VGA text memory | `console_init`, `_clear`, `_putchar`, `_puts`, `_printf`, the colour calls, `_enable_cursor`/`_disable_cursor`, `_set_cursor_pos`, `_scroll_up`/`_scroll_down` | use before init (NULL buffer); u32 cursor arithmetic at the edges; `%d` of INT_MIN; no field widths |
| string.c | the caller's arrays; `strtok_r`'s `*saveptr` | 35 functions | overlapping `memmove`; `strncpy` storing n + 1 bytes; `strtok_r` writing NULs into the array it walks; `strrtrim` never testing `str[0]` |
| stdlib.c, ctype.c | `rand_seed`; `ctype_table` | `atoi`, `itoa` family, `div`, `qsort`, `bsearch`, `rand`/`srand`, allocation wrappers; the 15 classifiers | u32 wrap in `rand`; a sign only in base 10; DEL classed as punctuation |
| time.c | `current_tm` (gmtime's result); asctime's `buf[26]` | `time`, `mktime`, `gmtime`, `localtime`, `strftime`, `asctime`, `ctime`; stubs | leap years; `"%02d"` passed to a vsnprintf without widths; `count` advanced twice after `s[count++]` |
| stdio.c | the caller's array | `sprintf`, `snprintf`, `vsprintf`, `vsnprintf`; printing calls that forward to the console; FILE stubs | `size - 1` wrapping at size 0; an unknown conversion storing two bytes unchecked |
| jarfs.c | `mount_list`, `mount_count`, `vfs_root`; mounts and files on the heap; the device blocks | `jarfs_init`/`vfs_init`, `jarfs_format`, `jarfs_mount`, `jarfs_unmount`, `jarfs_sync`, `jarfs_open`, `jarfs_close`, `jarfs_read`; stubs | position never initialised; device read results ignored; freed mounts left on `mount_list`; files outliving their mount; the unchecked temp buffer |
| jarvis_gui.c | `global_wm`, `jarvis_theme`, the window statics; framebuffer and window manager on the heap | `gui_init`, `gui_shutdown`, `framebuffer_create`, `wm_create`, `wm_add_window`, `window_create`, `theme_create_jarvis`; drawing calls | the rollback in `framebuffer_create`; the unchecked windows array; what `wm_destroy` does not free; dangling statics after shutdown |
| jarvis_core.c | `jarvis_instance`; network and knowledge base on the heap | `jarvis_core_init`, `neural_network_create`, `knowledge_base_create`, `knowledge_base_add`, `jarvis_process_input`, `jarvis_query_knowledge` | unchecked layer and neuron arrays; `JAR_INVAL` leaving the response unwritten |
| shell.c | `shell_buffer`, `shell_argv`, `shell_argc`, `current_directory` | `shell_run`, `shell_parse_line`, `shell_execute`, 30 handlers | `in_quotes` carried across arguments; quotes cutting arguments; `strcat` into fixed buffers; printing a response nobody wrote |

## 2. Modules

| module | models | state (VARIABLES) and actions |
|---|---|---|
| `PhysMem` | physical memory seen through the direct map, and the page-entry bit layout (`memory.h`) | no state. Memory is `[Frames -> [Slots -> Word]]`, where a word is the set of its set bits, kept for the table indices in `Slots`. Bitmap byte k of a frame is bits 8*(k%8).. of word k/8, so the bitmap and page tables can alias. `TableFrame` is `entry & PAGE_MASK` with the sign-extended mask. |
| `Pmm` | pmm.c | `memmap`, `pmm`, `mem`, `booted`, and the histories `bootMap` and `grants`. Actions: `PmmInit` (steps 1-4 in one step, with the no-fit path writing through NULL), `PmmInitNoResponse`, `AllocPage`, `FreePage(addr)`. |
| `Vmm` | vmm.c plus CPU and consumers | `mem`, `pfa`, `fault`, `grants`, `cr3`, `kernelPml4`, `nxe`, `spaces`, `tlb`, `held`, and the history `intended`. Actions: `VmmInit`, `VmmCreate`, `VmmMap(s, v, phys, flags)` (three `GetOrCreateTable` calls chained on one state record, then the leaf write and `invlpg`), `VmmSwitch`, `Access(v)` (an MMU walk that fills the TLB), `ConsumerAlloc`, `ConsumerFree`, `VmmHalted`. The frame allocator is a parameter (`PfaAlloc`, `PfaFree`). |
| `MemorySystem` | memory.c: vmm.c over pmm.c | `Pmm` plus `INSTANCE Vmm WITH pfa <- pmm, PfaAlloc <- PmmAlloc, ...`, sharing `mem`, `fault` and `grants`. `pmm_init` runs before anything else. |
| `LimineBoot` | the bootloader's page tables | the PML4 in frame 1; an identity map of 0..2 MiB through frames 2 and 3 (a HUGE PD entry); the kernel page `<<256,0,0,0>>` in frame 7 through frames 4, 5 and 6 |
| `ConsoleFormat` | `console_vprintf` and console.c's four integer conversions | no state. A string is its sequence of byte codes. `VprintfFrom` is the `while (*fmt)` loop as a RECURSIVE operator. `ToaDigits` is the `do ... while (value)` digit loop, using C's truncating division (`CDiv`) and wrapping `i = -i` at INT_MIN (`Neg32`). A pointer is `<<high, low>>`. |
| `PrintfSpec` | the byte codes of the format characters, and the `"(null)"` and `"0x"` texts both printf implementations use | no state. It holds `RefPrintf`, a reference definition of C's `printf` (with field widths) that writes digits positionally, against which both `ConsoleFormat` and `LibcStdio` are checked. A NULL `%s` argument is the model value `NullPtr`. |
| `Console` | console.c | `con` (main_console), `vga` (cell -> `<<byte, colour>>`), `wild` (stores that missed VGA memory), `calls`. Every call is an operator on the record `[con, vga, wild]`, so `console_printf` is `FoldLeft(Putchar, ...)` over `Vprintf`'s bytes. There is one action per console call, plus `CallsDone` at the call bound. A u32 is `U32_BITS` wide. |
| `CType` | ctype.c | no state. `CtypeTable` gives each byte's set of classes, and each classifier tests it, as the C does. |
| `LibcString` | string.c | no state. A destination is `[mem, over]`: the caller's array, plus the indices of stores past its end. Each loop is a RECURSIVE operator over the C loop's variables. `strtok_r` takes and returns the array and `*saveptr`. `kmalloc` (stubs.c) returns NULL. |
| `LibcStdlib` | stdlib.c | no state. `qsort` is Lomuto partition with the recursive calls on both sides. `rand_seed` is a pair of 16-bit halves, so the multiply mod 2^32 stays inside TLC's integers. |
| `LibcStdio` | stdio.c's formatting | no state. The loop state is `[buf, count]` (`out` is always `str + count`). `VsnFrom` is the `while (*format && count < size - 1)` loop; `CopyCapped` is each conversion's byte loop that re-tests the count, and `Put` the unchecked stores of `%c`, `%%`, unknown conversions and plain text. `Limit` is `size - 1` on a `size_t`, so 0 wraps to `SIZE_MAX`. |
| `LibcTime` | time.c | no state. A struct tm is a record. `gmtime` and `mktime` keep the C's year and month loops as RECURSIVE operators. `strftime`'s loop is `StrftimeFrom` over `[buf, count]`; each field conversion is an `snprintf` call at `s + count`, through `LibcStdio`. A day or month name is a string of its real length, since only lengths decide where text is cut. |
| `Libc` | a caller of the libc | `t`, one case. `NewCase` starts any case from the input sets. `StrtokCall` is the next call of a tokenisation (the array first, then NULL). `RandCall` and `SrandCall` act on `rand_seed`, which starts at its boot value 1. A `fmt` case is a format, an argument list that fits its conversions, and a size. A `time` case is a `time_t`. A `line` case is two end points and a fresh framebuffer, single or double buffered. Reference definitions (dictionary order, first occurrence, fields, trimmed text) sit beside the properties. |
| `KernelHeap` | `kmalloc`/`kfree` as callers see them (`memory.h`, `stubs.c`) | `heap` (the live objects) and `fault` (the first panic, NULL store or read, use after free, overrun, uninitialised read or double free), shared by the four services. `kmalloc(h, pool)` may return NULL or the first free object of the call site's pool. `FreeStep` frees and records a free of a pointer that is not live. Every action is guarded by `Running`, so nothing follows a fault. |
| `JarFS` | jarfs.c | `disk` (each device's superblock and inode-table blocks), `mounts` and `files` (what each mount and file object holds, Blank once freed), `mount_list`, `mount_count`, `vfs_root`, and the caller's handles `held_mounts` and `held_files`. One action per call: `jarfs_init`, `jarfs_format(d, size)`, `jarfs_mount(d)`, `jarfs_open(m)`, `jarfs_sync(m)`, `jarfs_unmount(m)`, `jarfs_close(f)`, `jarfs_read(f, count)`. Device reads may fail, and what kmalloc's memory holds (the position `jarfs_open` never sets, the inode a failed read leaves) is a choice from `JunkPositions` and `JunkInodes`. |
| `Gui` | jarvis_gui.c | the five statics, `wm` and `fb` (what the window manager and framebuffer hold), `gui_phase`. `gui_init` is one action over every outcome of its eight kmallocs; `gui_shutdown` frees what `wm_destroy` and the theme test free. `framebuffer_t` and `window_manager_t` are jarvis_gui.h's structs as record sets, used by `GuiTypeOK`. |
| `GuiDraw` | jarvis_gui.c's pixel and line drawing, over its own static `abs` (jarvis_gui.c:13) | no state. A framebuffer is a record whose buffers map the index `y * width + x` to a colour. `framebuffer_draw_pixel`, `framebuffer_clear` and `framebuffer_present` are operators on it. `framebuffer_draw_line`'s `while (1)` is `LinePoints`, a RECURSIVE operator over `LineStep` (one turn: `e2 = 2 * err`, then the two tests against that same `e2`), folded into `framebuffer_draw_pixel`. |
| `JarvisCore` | jarvis_core.c | `jarvis_instance` and `core` (the network's objects, the knowledge base, its nodes array and count). Actions `jarvis_core_init` and `knowledge_base_add`; `jarvis_process_input` is an operator the shell calls. `jarvis_core_t` and the network and node object sets stand for jarvis_core.h's structs. |
| `Shell` | shell.c | `shell_buffer` and `shell_argv`. A line is a sequence of blanks, quotes and words (a word is one string, since only blanks and quotes steer the parser). `SkipSpaces`, `ScanArg` and `ParseFrom` are the parser's three loops as RECURSIVE operators. `shell_turn` is one loop of `shell_run`. `ShellTokens` is a reference split, defined by where arguments start rather than by the loops. |
| `Services` | the four services over one heap | the union of their variables. `ServicesNext` is one call of one service, with the others' variables unchanged. `Leaked` is the live objects that no static, list or held handle reaches. `ServicesTypeOK` joins the type invariants of `JarFS` (the superblock, inode, file and mount structs jarfs.c defines for itself; it never includes fs/jarfs.h), `Gui` and `JarvisCore`. |
| `MCPmm`, `MCVmm`, `MCMemorySystem`, `MCConsole`, `MCLibc`, `MCJarFS`, `MCServices` | model values for TLC | memory maps, frames, virtual addresses, flag sets; console bytes, colours, positions and `printf` formats taken from the kernel's calls; libc alphabets, arrays and ints |

Modelling choices:

* **Addresses.** A virtual address is the tuple of its four 9-bit indices
  (`PML4_INDEX` .. `PT_INDEX`).
* **Pointers.** A pointer is a frame number, `NULL`, or `BAD` (a dereference
  that faults).
* **Reading NULL.** `Deref` sends `NULL` to physical 0 only when CR3 is
  Limine's PML4 and that identity-maps low memory (base revision 0). In a
  space `vmm_create` built, the lower half is empty and reading NULL faults.
* **Faults.** A fault stops the kernel; `VmmHalted` stutters.
* **The uninitialised tail byte.** Its bits are a nondeterministic choice.

## 3. Runs

| run | cfg | expect | what it shows |
|---|---|---|---|
| pmm_pass | MCPmm.cfg | pass | Covers two Limine-shaped maps, sorted and unsorted, each 16 frames, with any sequence of allocations, frees and out-of-range frees. No frame is granted twice (`NoDoubleGrant`). No reserved frame is granted (`GrantedFramesUsable`). No frame is lost: every usable frame that no consumer holds and that is not the bitmap's own has its bit clear (`NoFrameLost`). With frame 0 usable and not the bitmap's frame, this fails: the first allocation returns 0, which its caller reads as failure (a hazard in `PROJECT.json`). |
| pmm_bitmap_freed | MCPmm_BitmapGranted.cfg | violation | The first frame `pmm_alloc_page` returns is the one holding the bitmap. |
| pmm_tail_byte | MCPmm_TailByte.cfg | violation | A 12-frame map: a reserved frame whose bit lives in the uninitialised byte is granted. |
| vmm_pass | MCVmm.cfg | pass | Two spaces, five free frames, three virtual pages and two flag sets, over an ideal allocator. Lower-half mappings translate to the last `vmm_map` (`MappingCorrect`) and are private (`LowerHalfIsolated`). The boot higher half is shared (`HigherHalfShared`). The TLB never holds a stale translation (`TlbFresh`). |
| vmm_nomem_fault | MCVmm_NoMemFault.cfg | violation | Exhaustion inside `vmm_map` in a created space dereferences NULL. |
| vmm_rights | MCVmm_Rights.cfg | violation | A USER leaf under a kernel-created intermediate table is not user-accessible. |
| memsys_bitmap_wiped | MCMemorySystem.cfg | violation | With the real allocator, `vmm_create` zeroes the bitmap. The allocator then grants Limine's live PML4 a second time. |
| console_pass | MCConsole.cfg | pass | Any five console calls on a 10x2 screen, from the zeroed static. After `console_init`, every store lands inside VGA memory (`VgaWritesInBounds`). That covers tab stops past the last column, wrap, scroll on the last row, and out-of-range cursor positions. On an initialised console, `console_printf` of the kernel's formats writes what C's `printf` prints (`PrintfShowsText`). |
| libc_pass | MCLibc.cfg | pass | The libc is checked against reference definitions, on every string of up to 3 bytes (4 for tokenising, trimming and sorting) over small alphabets and on ints around zero and near INT_MAX. The checks are `CompareOrder` (strcmp, strncmp, strcasecmp, memcmp, startswith, endswith), `SearchFindsFirst` (strchr, strrchr, memchr, strstr, strpbrk, strspn, strcspn), `BoundedCopies` (strlcpy, strlcat, strcat, strncat, and the callers' `strncpy(dst, src, size - 1)`), `MemmoveCopies`, `StrtokSplits` (a whole `strtok_r` session), `TrimTrims`, `QsortSorts`, `BsearchFinds` `ItoaRoundTrip` (itoa and utoa read back by atoi, strtol and strtoul), and `SnprintfBounded` (snprintf at every size from 1 to 12 stores nothing past the array and leaves the truncated, terminated `RefPrintf` text; sprintf into a big enough array leaves all of it), `GmtimeCivil` (gmtime's fields agree with a reference day count from the civil date, and mktime gives the time back) `AsctimeBounded` (asctime stays inside its 26-byte buffer and terminates its text), and `DrawLineTraces`: the GUI's clear, `framebuffer_draw_line`, present sequence draws one pixel per step of the longer axis from end point to end point, each within half a pixel of the true line, clips what is off the screen, changes the screen only at present when double buffered, and then shows exactly the line's on-screen pixels. |
| jarfs_read_overrun | MCJarFS.cfg | violation | Format, mount, open, read: the fresh file's position is junk (5000 on a 4096-byte directory), the clamp wraps, and `memcpy` copies from past the temp block (`ReadStaysInBlock`). |
| services_pass | MCServices.cfg | pass | JarFS, GUI, AI core and shell interleaved over one heap where every kmalloc may fail: every object has the type of its C struct (`ServicesTypeOK`); every superblock on the disk, formatted or synced back, has a consistent layout (`FormatLayout`); the only lost objects are the ones `gui_shutdown` strands (`LeaksOnlyAtShutdown`); no kfree frees a dead pointer (`NoDoubleFree`); `shell_argv` is the reference split of the line (`ShellParseSplits`). |
| services_shutdown_leak | MCServices_Leak.cfg | violation | `gui_shutdown` after `gui_init` leaves the framebuffer, its two pixel buffers and the windows array allocated and unreachable (`HeapReachable`). |

The findings in `PROJECT.json` say what each violation shows about the code.
Each property of a passing run has a mutant, a plausible bug in the mapped
code that TLC catches. The mutants are: `pmm_alloc_page` not setting the bit,
`pmm_free_page`'s range test one page short, the free loop running one page too far,
`write_cr3` given the virtual PML4, `PDPT_INDEX` shifted by 21, the copy loop
starting at 257 or at 0, and `invlpg` left out. The console and libc
mutants are:

* the wrap test with `>` for `>=`;
* the digit reversal left out;
* `strcmp`'s subtraction swapped;
* `strstr` matching the first byte only;
* `strlcpy` copying `size` bytes;
* `memmove` always copying upward;
* `strtok_r` not writing the NUL after a token;
* `strrtrim`'s NUL one byte early;
* the swap's third store left out;
* `bsearch` setting `right = mid - 1`;
* `itoa` using a negative remainder as a digit index;
* `vsnprintf`'s conversion copy without its `count < size - 1` test;
* `is_leap_year` without its 400-year exception;
* `strftime`'s loop test `count < max` for `count < max - 1`;
* `framebuffer_draw_line`'s y test reading `err` after the x step instead of the saved `e2`.

The services mutants are `div_round_up` rounding down, a `jarfs_mount`
rejection path returning without `kfree(mount)`, `jarfs_unmount` also
freeing `mount->cwd`, the parser ending an argument at a blank inside
quotes, and `wm_add_window` without its `window != NULL` test.

### Bounds

* **Pmm.** 16 frames, so the bitmap is two bytes: enough for the carve-out
  to leave a partial page, and for a usable entry after a reserved one. The
  maps go through every branch of `pmm_init`: first fit in the first and in a
  later entry, and a reserved entry between usable ones. Every frame can be
  allocated and freed, so exhaustion is reached.
* **Vmm.** Five free frames reach exhaustion in the middle of `vmm_map`: one
  PML4, up to three tables per lower page, and two data frames. Three
  virtual pages reach two PDPT indices under one PML4 entry, which is what
  isolation, shared intermediates and the rights run need, plus one
  higher-half page under the boot-time kernel entry. `MaxSpaces = 2` is the
  least number of spaces that can share or leak tables. `MaxHeld = 2` allows
  a remap to a different frame, which the TLB property needs.
* **Slots.** Kept table indices are {0, 1, 256, 257}.
* **Console.**
  * The screen is 10x2 rather than 80x25. That is wide enough for a tab
    stop inside a row (8) and one past it (16, a wrap). Two rows are
    enough for a newline on the last row to scroll.
  * `MaxCalls = 5` allows init followed by four calls, which reaches a
    wrap followed by a scroll, or a printf at a clamped cursor.
  * A u32 is 16 bits wide (`U32_BITS`). The only values that reach the
    top of the range are width - 1 and height - 1 on a zeroed console,
    where the result is the same all-ones value whatever the width.
  * `long` and pointer arguments stay below 2^31, TLC's integer range. A
    pointer's high word is a separate number.
* **Libc.**
  * Four letters (' ', 'A', 'a', 'b') tell case-sensitive comparison from
    case-insensitive comparison. They also give matches that fail on the
    second byte.
  * Arrays of up to 4 bytes hold every case where a copy ends at, or one
    before, the end of the destination.
  * Arrays of up to 4 elements over {1, 2, 3} include duplicates and
    every three-way partition.
  * The ints are -12..12 plus the digit boundaries and ±INT_MAX. INT_MIN
    is left out because `atoi` of its text overflows `int` (undefined
    behaviour).
  * The snprintf formats are `%d`, `x=%x;`, `%s%c`, `%%%u` and `%p`: a
    conversion alone, between text, two in a row and after `%%`. Their
    arguments include -INT_MAX, an empty string, NULL and a pointer with a
    non-zero high word, so outputs run up to 12 bytes. Sizes 1 to 12 cut
    every output at every byte, and the largest leaves it whole.
  * The times are the epoch and its last second, a 1972 leap day, the end
    of 1972 and of 1999, 2000-02-29 and 2000-03-01 (which only the
    400-year rule gets right), `time()`'s 2024 value, and 2^31 - 1, the
    largest TLC integer (2038-01-19). asctime's text is cut at byte 25
    after the seconds field, so every date reaches the buffer's end.
  * Lines run between any two points of -1..3 on a 3x2 screen: shallow,
    steep, diagonal, reversed and single-point lines, with end points on
    the screen, off it on each side, and one on and one off.

* **Services.** One device, and format sizes 8, 16 and 32 MiB: one below
  `jarfs_format`'s floor and two above it, so a sync can write back a
  superblock older than the last format. One mount and one file object: the
  root takes the file, so `jarfs_open` succeeds only after the root's
  kmalloc failed, which also covers a mount without a root. `MaxMounts = 1`,
  since `mount_count` only grows. One object per GUI and core allocation
  site, except two windows and three neuron arrays (one per layer). The
  eight shell lines cover an empty line, leading blanks, a tab, two blanks
  in a row, a quoted argument, an unmatched quote, a handler's argument
  check, `cmd_jarvis` and an unknown command. The junk position is 0 here;
  the past-the-block position is `MCJarFS`'s (two mounts, two files). The
  run has about a million states and takes about a minute.

### Fairness

None. The kernel is single-threaded, and every modelled component is driven
by its callers (spec section 5): nothing must happen eventually on its own.
No liveness property is claimed. The services runs turn off deadlock
checking because a panic or a fault halts the kernel: no step follows one.

## 4. Plan

Done: the memory subsystem (pmm.c, vmm.c, memory.c), the VGA console,
the string, stdlib, ctype, stdio formatting and time parts of the libc, and
JarFS, the GUI's setup and teardown, the AI core and the shell over a shared
kernel heap.

Next, in order:
1. A run that shows the shell printing an uninitialised response before
   `jarvis_core_init` (the services model reaches it as `uninit_read`).
2. stdio.c's printing calls composed with `Console` (its `puts` passes
   the user's string as a format).
3. `wm_render` over `GuiDraw`: window borders and title bars clipped to the
   screen.

## 5. What is not modelled, and why

* **Hardware details.** `read_msr` and `write_msr` are modelled by their
  effect, EFER.NXE. Page offsets, the ACCESSED and DIRTY bits the CPU sets,
  and multi-core behaviour are not modelled; the spec puts multi-core out of
  scope.
* **The heap.** For vmm.c, `kmalloc` and `kfree` are taken as a working
  heap. In this build `kmalloc` returns NULL, so `vmm_create` would always
  fail; a hazard records this. The services models let every kmalloc return
  NULL, which covers the stub.
* **Remapping.** The leak on remap is documented behaviour (Scenario B); the
  model keeps the overwrite and checks it.
* **Data frames.** Consumers never write to their data frames, so only the
  allocator and vmm.c write memory.
* **Kernel entry.** `kmain` (main.c) writes `OK` to COM1, then either
  writes `E` (no framebuffer from Limine) or fills 250000 pixels with one
  colour, ignoring the reported width, height and pitch, and halts. It
  reads nothing back and never calls `memory_init`, so there is no state
  for a property to be about. The console run models
  `pmm_init`'s `console_printf` on its own, not inside the pmm.c runs.
* **Console hardware.** `outb` and `inb` to the CRT controller only move the
  blinking cursor, so they are not modelled. `console_switch` and
  `console_get_active` are not modelled either: there is one console, and no
  caller passes another.
* **Control flow that never returns.** `abort` and `exit` halt the CPU.
  `getenv` and `system` are constant stubs.
* **math.c.** Its `abs` is the same as the static `abs` GuiDraw models; everything else computes on doubles, and TLC
  has neither reals nor 64-bit integers. Reading the code shows a bug a
  model of doubles would find: `floor` truncates `x - 0.9999999999999999`
  for negative x, and that constant is 1 - 2^-53, so `-1.0 - 0.9999999999999999`
  rounds to -2.0 and `floor(-1.0)` is -2; `ceil(1.0)` is 2 the same way.
  `errno.c` holds one global int that nothing reads.
* **GUI rendering.** `wm_render` and `draw_progress_ring` (which uses
  `sin` and `cos` on doubles) only compose the modelled drawing calls.
  `terminal_create` has no caller.
* **Shell output and undefined calls.** What the handlers print is left
  out; their argument checks and calls into the core are kept. `cmd_learn`,
  `cmd_evolve`, `cmd_meminfo` and `cmd_status` call functions no file
  defines, so no line of the model passes their checks. The `strcat` into
  1024-byte buffers needs arguments over 1000 bytes, and the model's words
  have no length.
* **AI core details.** The 192 per-neuron weight arrays and the
  `random_float` biases: no code reads or frees them. The thread loops only
  sleep.
* **JarFS details.** Checksums, versions and times (no code reads them);
  `jarfs_write`, `vfs_read`, `vfs_write` and the semantic-search stubs, which
  return constants.
* **time.c's wrong text.** Each `%d`, `%H`, `%M`, `%S`, `%m`, `%I` and `%y`
  field of `strftime` prints the literal `%02d`, because vsnprintf treats
  `0` as an unknown conversion; asctime prints
  `"Mon Jan %02d %02d:%02d:%0"`. `strftime` with `%%` or an unknown
  conversion near the end of the buffer stores past it. These are hazards
  in `PROJECT.json`, not runs: no code outside time.c calls it, and the
  project's runs already hold one question each. `difftime` returns a
  double; `clock`, the sleeps and `clock_*` are constant stubs.
* **stdio.c beyond formatting.** `printf`, `vprintf`, `fprintf`, `puts`,
  `putchar`, `fputc`, `fputs`, `perror` and `kernel_printf` only forward to
  the console, whose formatting `ConsoleFormat` models. The FILE calls
  (`fopen` .. `setvbuf`) are constant stubs. `vsnprintf` has two
  divergences from C that no property checks: `%X` prints lower case, and
  the return value is the count written, not the untruncated length. No
  caller reads either. `PROJECT.json` gives each
  one's status.
* **Bugs shown by earlier runs.** Three bugs have no run now: the first
  `pmm_alloc_page` returning frame 0 (the failure value), `PAGE_MASK`
  keeping the NX bit so the next walk reads a non-canonical address, and
  console output before `console_init` storing through NULL. The model
  still reaches each of them, and each is a hazard in `PROJECT.json`. Their
  runs gave way to the services runs.

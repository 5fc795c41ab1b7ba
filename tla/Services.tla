------------------------------- MODULE Services -------------------------------
(***************************************************************************)
(* The kernel services over one heap: JarFS, the GUI, the AI core and the *)
(* shell that asks the core about what it does not know.  A step is one  *)
(* call of one service; the shared heap and fault make a NULL kmalloc,    *)
(* a panic or a crash in one of them the end of all.                      *)
(***************************************************************************)
EXTENDS JarFS, Gui, Shell

vars == <<heap, fault, jarfs_vars, gui_vars, core_vars, shell_vars>>

ServicesInit == HeapInit /\ JarfsInit /\ GuiInit /\ CoreInit /\ ShellInit

ServicesNext ==
  \/ JarfsNext /\ UNCHANGED <<gui_vars, core_vars, shell_vars>>
  \/ GuiNext /\ UNCHANGED <<jarfs_vars, core_vars, shell_vars>>
  \/ CoreNext /\ UNCHANGED <<jarfs_vars, gui_vars, shell_vars>>
  \/ shell_turn /\ UNCHANGED <<jarfs_vars, gui_vars>>

Spec == ServicesInit /\ [][ServicesNext]_vars

\* Every variable of the four services has the type of the C object it
\* stands for, through any interleaving of their calls and any pattern of
\* NULL kmallocs.
ServicesTypeOK ==
  /\ fault \in Faults
  /\ JarfsTypeOK /\ GuiTypeOK /\ CoreTypeOK
  /\ shell_argv \in Seq(STRING) /\ Len(shell_argv) <= SHELL_MAX_ARGS

\* The live objects no static, list or caller's handle reaches.
Leaked == heap \ (JarfsReachable \cup GuiReachable \cup CoreReachable)

(***************************************************************************)
(* Every object kmalloc handed out and nobody freed is still reachable     *)
(* from a static, a list or a handle a caller holds: the error paths of   *)
(* jarfs_mount, framebuffer_create and the core's constructors free what  *)
(* they give up, and jarfs_unmount and gui_shutdown free what they own.  *)
(***************************************************************************)
HeapReachable == Running => Leaked = {}

(***************************************************************************)
(* The only objects lost are those gui_shutdown strands: wm_destroy frees *)
(* the window manager but not its framebuffer, pixel buffers or windows   *)
(* array.  A mount rejected by jarfs_mount, a file closed, an unmounted  *)
(* volume, a half-built core, leave nothing behind.  (framebuffer_create's *)
(* rollback is always followed by gui_init's panic, so it is not tested.) *)
(***************************************************************************)
ShutdownStranded ==
  IF gui_phase = "down" THEN {fb.obj, fb.pixels, fb.back_buffer} \cup WinArrObjs ELSE {}

LeaksOnlyAtShutdown == Running => Leaked \subseteq ShutdownStranded

(***************************************************************************)
(* No kfree is given a pointer that is not live: jarfs_unmount closes the *)
(* root it opened once (cwd is the same file) and frees the mount once,   *)
(* and gui_shutdown frees the window manager and the theme once.          *)
(***************************************************************************)
NoDoubleFree == fault # "double_free"

(***************************************************************************)
(* shell_parse_line leaves in shell_argv exactly the arguments the line   *)
(* holds: a blank outside quotes ends one, blanks after it are skipped,   *)
(* in_quotes carries from one argument to the next, and each quote cuts   *)
(* its argument where it stands.                                          *)
(***************************************************************************)
ShellParseSplits == shell_argv = ShellTokens(shell_buffer)

=============================================================================

--------------------------------- MODULE Gui ---------------------------------
(***************************************************************************)
(* jarvis_gui.c: gui_init, which builds the framebuffer, the window       *)
(* manager, the theme and JARVIS's two windows, and gui_shutdown.  The     *)
(* statics are pointers into the heap; wm and fb hold what the window     *)
(* manager and the framebuffer contain (Blank once freed or never made).  *)
(* The caller runs gui_init once and gui_shutdown once after it, the way  *)
(* a boot and a power-off sequence would; the drawing calls change no     *)
(* pointer and are left out.                                               *)
(***************************************************************************)
EXTENDS KernelHeap, Integers, Sequences

CONSTANTS
  FbObjs,      \* kmalloc(sizeof(framebuffer_t)) in framebuffer_create
  PixelObjs,   \* kmalloc(width * height * 4): fb->pixels
  BackObjs,    \* kmalloc(width * height * 4): fb->back_buffer
  WmObjs,      \* kmalloc(sizeof(window_manager_t)) in wm_create
  WinArrObjs,  \* kmalloc(sizeof(window_t*) * capacity): wm->windows
  ThemeObjs,   \* kmalloc(sizeof(theme_t)) in theme_create_jarvis
  WindowObjs   \* kmalloc(sizeof(window_t)) in window_create

VARIABLES global_wm, jarvis_theme, main_window, dashboard_window, wm, fb, gui_phase

gui_vars == <<global_wm, jarvis_theme, main_window, dashboard_window, wm, fb, gui_phase>>

GuiInit ==
  /\ global_wm = NULL /\ jarvis_theme = NULL
  /\ main_window = NULL /\ dashboard_window = NULL
  /\ wm = Blank /\ fb = Blank
  /\ gui_phase = "off"

\* kfree(fb->pixels); kfree(fb);
FbUndo(h, f, px) == kfree(kfree(h, px), f)

\* framebuffer_create(1024, 768, true): fb, pixels, back buffer, each
\* failure undoing the allocations before it.
FbOutcomes(h) ==
  {[heap |-> h, fb |-> NULL]} \cup
  UNION {UNION {
    {IF px = NULL THEN [heap |-> kfree(h \cup {f}, f), fb |-> NULL]
     ELSE IF bb = NULL THEN [heap |-> FbUndo(h \cup {f, px}, f, px), fb |-> NULL]
     ELSE [heap |-> h \cup {f, px, bb}, fb |-> [obj |-> f, pixels |-> px, back_buffer |-> bb]]
     : bb \in kmalloc(h \cup {f, px}, BackObjs)}
    : px \in kmalloc(h \cup {f}, PixelObjs)}
  : f \in kmalloc(h, FbObjs) \ {NULL}}

\* wm_create: capacity 32, windows from an unchecked kmalloc.
WmOutcomes(h) ==
  {[heap |-> h, wm |-> NULL]} \cup
  UNION {{[heap |-> Granted(h \cup {w}, a),
           wm |-> [obj |-> w, windows |-> a, num_windows |-> 0, slots |-> <<>>]]
          : a \in kmalloc(h \cup {w}, WinArrObjs)}
         : w \in kmalloc(h, WmObjs) \ {NULL}}

WmCapacity == 32

\* Mutant: wm_add_window without its window != NULL test.
wm_add_window_any(st, win) ==
  IF st.wm.num_windows < WmCapacity
  THEN [wm |-> [st.wm EXCEPT !.num_windows = @ + 1, !.slots = Append(@, win)],
        fault |-> IF st.wm.windows = NULL THEN "null_store" ELSE st.fault]
  ELSE st

\* wm_add_window(wm, window): wm->windows[wm->num_windows++] = window.
\* st is [wm, fault]; the store through a NULL windows array faults.
wm_add_window(st, win) ==
  IF win # NULL /\ st.wm.num_windows < WmCapacity
  THEN [wm |-> [st.wm EXCEPT !.num_windows = @ + 1, !.slots = Append(@, win)],
        fault |-> IF st.wm.windows = NULL THEN "null_store" ELSE st.fault]
  ELSE st

\* jarvis_gui_init on st = [wm, fault]: window_create and wm_add_window
\* for the main window, then for the dashboard (dash), unless the first
\* store faulted.
jarvis_gui_init(st, w1, w2) ==
  LET s1 == wm_add_window(st, w1)
      s2 == wm_add_window(s1, w2)
  IN  IF s1.fault = "none" THEN [wm |-> s2.wm, fault |-> s2.fault, dash |-> w2]
      ELSE [wm |-> s1.wm, fault |-> s1.fault, dash |-> NULL]

\* gui_init: a NULL framebuffer or window manager panics; then the theme
\* and jarvis_gui_init.
gui_init ==
  /\ Running
  /\ gui_phase = "off"
  /\ \E r \in FbOutcomes(heap) :
     IF r.fb = NULL
     THEN /\ heap' = r.heap /\ fault' = "panic"
          /\ UNCHANGED <<global_wm, jarvis_theme, main_window, dashboard_window, wm, fb, gui_phase>>
     ELSE \E m \in WmOutcomes(r.heap) :
          IF m.wm = NULL
          THEN /\ heap' = m.heap /\ fault' = "panic" /\ fb' = r.fb
               /\ UNCHANGED <<global_wm, jarvis_theme, main_window, dashboard_window, wm, gui_phase>>
          ELSE \E t \in kmalloc(m.heap, ThemeObjs) :
               \E w1 \in kmalloc(Granted(m.heap, t), WindowObjs) :
               \E w2 \in kmalloc(Granted(Granted(m.heap, t), w1), WindowObjs) :
                 LET st == jarvis_gui_init([wm |-> m.wm, fault |-> "none"], w1, w2)
                 IN  /\ global_wm' = m.wm.obj
                     /\ jarvis_theme' = t
                     /\ main_window' = w1
                     /\ dashboard_window' = st.dash
                     /\ heap' = Granted(Granted(Granted(m.heap, t), w1), st.dash)
                     /\ fault' = st.fault
                     /\ wm' = st.wm
                     /\ fb' = r.fb
                     /\ gui_phase' = "up"

\* gui_shutdown: wm_destroy frees the window manager alone, then the
\* theme is freed; the statics keep their values.
gui_shutdown ==
  /\ Running
  /\ gui_phase = "up"
  /\ LET st == FreeStep(FreeStep([heap |-> heap, double |-> FALSE], global_wm), jarvis_theme)
     IN  /\ heap' = st.heap
         /\ fault' = IF st.double THEN "double_free" ELSE fault
  /\ wm' = Blank
  /\ gui_phase' = "down"
  /\ UNCHANGED <<global_wm, jarvis_theme, main_window, dashboard_window, fb>>

GuiNext == gui_init \/ gui_shutdown

\* framebuffer_t: the object itself, pixels and back_buffer (width,
\* height and pitch are the constants 1024, 768, 4096; double_buffered is
\* true).
framebuffer_t == [obj : FbObjs, pixels : PixelObjs, back_buffer : BackObjs]

\* window_manager_t: the object, windows, num_windows, and the window
\* pointers stored in windows[0 .. num_windows-1] (capacity is 32; the
\* mouse, focus, font and notification fields stay zero).
window_manager_t ==
  [obj : WmObjs, windows : WinArrObjs \cup {NULL}, num_windows : 0 .. WmCapacity,
   slots : Seq(WindowObjs)]

\* The GUI's statics point to objects of their type or are NULL, and the
\* window manager holds exactly num_windows window pointers.
GuiTypeOK ==
  /\ global_wm \in WmObjs \cup {NULL} /\ jarvis_theme \in ThemeObjs \cup {NULL}
  /\ main_window \in WindowObjs \cup {NULL} /\ dashboard_window \in WindowObjs \cup {NULL}
  /\ wm \in window_manager_t \cup {Blank} /\ fb \in framebuffer_t \cup {Blank}
  /\ wm # Blank => Len(wm.slots) = wm.num_windows
  /\ gui_phase \in {"off", "up", "down"}

\* What the GUI's statics keep reachable: the windows through their own
\* statics, the framebuffer and the windows array only through a live wm.
GuiReachable ==
  ({global_wm, jarvis_theme, main_window, dashboard_window} \cup
   (IF wm = Blank THEN {}
    ELSE {fb.obj, fb.pixels, fb.back_buffer, wm.windows} \cup {wm.slots[i] : i \in DOMAIN wm.slots})) \ {NULL}

=============================================================================

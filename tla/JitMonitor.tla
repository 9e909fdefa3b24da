------------------------------ MODULE JitMonitor ------------------------------
(***************************************************************************)
(* Reports of kernels that are compiled after warm-up (runtime/jit/        *)
(* jit_monitor.patched.py).  TileLang compiles in a kernel's constructor,  *)
(* mostly within a call that missed its cache.  Both are wrapped: the call *)
(* reports and counts itself in a global, the constructor reports when the *)
(* count is zero.                                                          *)
(*                                                                         *)
(* What is reported goes through one handler: an error is raised, a stack  *)
(* that is silenced, as it ships, logs at debug, and otherwise a kernel is *)
(* warned of once, unless in verbose mode.  A global's += is one step: the *)
(* interpreter does not switch threads between its load and its store.     *)
(* External: TileLang and Triton.                                          *)
(***************************************************************************)
EXTENDS Naturals, FiniteSets, Sequences

CONSTANTS
  Threads,
  Kernels,
  MaxCalls  \* bound on the calls that miss their cache

\* Assumed of the constants wherever the module is instantiated.
MonitorAssumption == MaxCalls \in Nat

VARIABLES
  silent,    \* GLM53_JIT_MONITOR_SILENT is not 0
  active,    \* _active
  onCompile, \* _mode
  verbose,   \* _verbose
  hooked,    \* the libraries whose hooks are installed
  warned,    \* what warning_once has logged, as <<library, kernel>>
  depth,     \* _tilelang_jitimpl_compile_depth
  open,      \* the wrapped calls in progress: [thread, number, kernel, level]
  calls,     \* calls so far
  log        \* history: the last compilation since the activation, if any

vars == <<silent, active, onCompile, verbose, hooked, warned, depth, open, calls, log>>

Libraries == {"triton", "cute", "tilelang"}

\* What becomes of a report; a repeat is dropped by warning_once.
Levels == {"error", "debug", "repeat", "warning"}

Init ==
  /\ silent \in BOOLEAN
  /\ active = FALSE /\ onCompile = "warn" /\ verbose = FALSE /\ hooked = {}
  /\ warned = {} /\ depth = 0 /\ open = {} /\ calls = 0 /\ log = {}

-----------------------------------------------------------------------------
\* activate: once; a library that cannot be imported is passed over for good.
Activate(mode, v) ==
  /\ ~active /\ active' = TRUE
  /\ onCompile' = mode /\ verbose' = v
  /\ hooked' \in SUBSET Libraries
  /\ UNCHANGED <<silent, warned, depth, open, calls, log>>

\* _handle_jit_event.
Level(library, kernel) ==
  CASE onCompile = "error" -> "error"
    [] onCompile # "error" /\ silent -> "debug"
    [] onCompile # "error" /\ ~silent /\ ~verbose /\ <<library, kernel>> \in warned -> "repeat"
    [] OTHER -> "warning"

Handle(library, kernel) ==
  warned' = IF Level(library, kernel) = "warning" /\ ~verbose
            THEN warned \cup {<<library, kernel>>} ELSE warned

\* A compilation by t, and what became of the reports that name it.
Compiled(t, library, kernel, reports) ==
  log' = {[library |-> library, kernel |-> kernel, reports |-> reports,
           alone |-> \A c \in open : c.thread = t]}

\* _call_with_monitor on a miss: counted, then reported; an error leaves through the
\* finally.
Enter(t, kernel) ==
  /\ calls < MaxCalls /\ calls' = calls + 1
  /\ IF "tilelang" \in hooked /\ onCompile = "warn"
     THEN /\ depth' = depth + 1
          /\ open' = open \cup {[thread |-> t, number |-> calls, kernel |-> kernel,
                                 level |-> Level("tilelang", kernel)]}
          /\ Handle("tilelang", kernel)
     ELSE UNCHANGED <<depth, open, warned>>
  /\ UNCHANGED <<silent, active, onCompile, verbose, hooked, log>>

Innermost(c) == \A d \in open : d.thread = c.thread => d.number <= c.number

Leave_OnlyReturned(t) ==    \* no finally: a call that raises stays counted
  \E c \in open :
    /\ c.thread = t /\ Innermost(c)
    /\ open' = open \ {c}
    /\ depth' \in {depth - 1, depth}
    /\ UNCHANGED <<silent, active, onCompile, verbose, hooked, warned, calls, log>>

\* The innermost call of a thread returns or raises.
Leave(t) ==
  \E c \in open :
    /\ c.thread = t /\ Innermost(c)
    /\ open' = open \ {c}
    /\ depth' = depth - 1
    /\ UNCHANGED <<silent, active, onCompile, verbose, hooked, warned, calls, log>>

\* _init_with_monitor within a call: it reports by itself only if the count is zero.
BuildInside(t) ==
  /\ \E c \in open :
       /\ c.thread = t /\ Innermost(c)
       /\ IF depth = 0
          THEN /\ Handle("tilelang", c.kernel)
               /\ Compiled(t, "tilelang", c.kernel,
                           <<c.level, Level("tilelang", c.kernel)>>)
          ELSE Compiled(t, "tilelang", c.kernel, <<c.level>>) /\ UNCHANGED warned
  /\ UNCHANGED <<silent, active, onCompile, verbose, hooked, depth, open, calls>>

\* _init_with_monitor of a kernel that is not from the database, outside of the calls of
\* its thread; an error comes before the compilation.
BuildOutside(t, kernel) ==
  /\ "tilelang" \in hooked /\ \A c \in open : c.thread # t
  /\ IF depth = 0
     THEN /\ Handle("tilelang", kernel)
          /\ Compiled(t, "tilelang", kernel, <<Level("tilelang", kernel)>>)
     ELSE Compiled(t, "tilelang", kernel, << >>) /\ UNCHANGED warned
  /\ UNCHANGED <<silent, active, onCompile, verbose, hooked, depth, open, calls>>

\* _on_jit_compile after a Triton compilation, _MonitoredCuteCompile before one.
Hooked(t, library, kernel) ==
  /\ library \in hooked /\ library # "tilelang"
  /\ Handle(library, kernel)
  /\ Compiled(t, library, kernel, <<Level(library, kernel)>>)
  /\ UNCHANGED <<silent, active, onCompile, verbose, hooked, depth, open, calls>>

Next ==
  \/ \E mode \in {"warn", "error"}, v \in BOOLEAN : Activate(mode, v)
  \/ \E t \in Threads : Leave(t) \/ BuildInside(t)
  \/ \E t \in Threads, k \in Kernels : Enter(t, k) \/ BuildOutside(t, k)
  \/ \E t \in Threads, l \in Libraries, k \in Kernels : Hooked(t, l, k)

Spec == Init /\ [][Next]_vars

-----------------------------------------------------------------------------
(* Properties.                                                             *)

TypeOK ==
  /\ silent \in BOOLEAN /\ active \in BOOLEAN /\ verbose \in BOOLEAN
  /\ onCompile \in {"warn", "error"} /\ hooked \subseteq Libraries
  /\ warned \subseteq Libraries \X Kernels
  /\ depth \in Nat /\ calls \in 0..MaxCalls
  /\ open \subseteq [thread : Threads, number : 0..MaxCalls, kernel : Kernels, level : Levels]
  /\ log \subseteq [library : Libraries, kernel : Kernels, reports : Seq(Levels),
                    alone : BOOLEAN]

\* Each compilation is handed to the handler exactly once, however calls nest, overlap and
\* fail, unless another thread is inside a call; and the handler keeps silent only about
\* a kernel it has warned of before, or when it was told to.  activate promises more,
\* "logged as a warning or raised as an error": not so where silent, as the stack ships.
ReportedOnce ==
  \A c \in log :
    /\ Len(c.reports) <= 1
    /\ c.alone => /\ Len(c.reports) = 1
                  /\ c.reports[1] = "debug" => silent
                  /\ c.reports[1] = "repeat" => <<c.library, c.kernel>> \in warned
=============================================================================

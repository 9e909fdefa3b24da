----------------------------- MODULE SourcePatches -----------------------------
(***************************************************************************)
(* The patches the image is built with (image/patches/*.py, in the order   *)
(* of the Dockerfile).  A script goes through its hunks: it looks for the  *)
(* text a hunk replaces and for the text it leaves, and writes the file,   *)
(* skips the hunk or refuses.  Files are written one hunk at a time; a     *)
(* script that is started again goes on where it was.                      *)
(*                                                                         *)
(* A region is what one hunk replaces, its text a name: "stock", what a    *)
(* hunk leaves, "other" for a base image that moved, "twice" for a hunk in *)
(* it two times, "cut" where the writing of a file was interrupted.        *)
(*                                                                         *)
(* External: the base image.  A step of docker build that fails loses the  *)
(* files it wrote; the same script run by hand keeps them.                 *)
(***************************************************************************)
EXTENDS Naturals, Sequences, FiniteSets

CONSTANTS
  MaxFails,  \* bound on scripts that refuse or are interrupted
  MaxReruns  \* bound on scripts run again after they succeeded

\* Assumed of the constants wherever the module is instantiated.
PatchesAssumption == MaxFails \in Nat /\ MaxReruns \in Nat

VARIABLES
  base,     \* the regions of the base image that are not stock
  text,     \* text[r]: the text of region r
  layers,   \* the texts before the script that runs
  script,   \* the script that runs or is next
  hunk,     \* its hunk to come; 0 when it does not run
  cut,      \* files whose writing was interrupted and that were kept
  image,    \* "building", "built" or "failed" (verify.py refused)
  fails, reruns, refused  \* history: refused, the hunks a script ended with

vars == <<base, text, layers, script, hunk, cut, image, fails, reruns, refused>>

-----------------------------------------------------------------------------
(* The hunks.                                                              *)

\* How a hunk that is there is noticed: "counts" by apply_once, which wants the text
\* it replaces gone; "new" by the text it leaves or a marker in it, as a hunk that
\* keeps the text it replaces must be.
Hunk(file, region, old, new, by) ==
  [file |-> file, region |-> region, old |-> old, new |-> new, by |-> by]

\* glm53-flash_SM121.py, mode sm90.
SM90 ==
  <<Hunk("cuda", "list", "stock", "sm90", "counts"),
    Hunk("sm90", "capability", "stock", "new", "counts"),
    Hunk("sm90", "wrapper", "stock", "new", "counts"),
    Hunk("sm90", "gate", "stock", "new", "counts"),
    Hunk("cuda", "pdl", "stock", "new", "counts"),
    Hunk("kpool", "prefill", "stock", "new", "counts"),
    Hunk("kpool", "decode", "stock", "new", "counts"),
    Hunk("compress", "clamp", "stock", "new", "counts"),
    Hunk("mla", "tile", "stock", "new", "counts"),
    Hunk("core", "major", "stock", "new", "counts")>>

\* gb10_topk_fallback.py.
TopkFallback ==
  <<Hunk("indexer", "topk", "stock", "new", "counts"),
    Hunk("kpool", "topk_kpool", "stock", "new", "counts")>>

\* gb10_plugin_backend.py: rewrites what the first script left.
PluginBackend == <<Hunk("cuda", "list", "sm90", "plugin", "new")>>

\* worker_memory_cap.py and thinking_budget_guard.py.
MemoryCap == <<Hunk("worker", "cap", "stock", "kept", "new")>>
BudgetGuard == <<Hunk("sampler", "guard", "stock", "kept", "new")>>

Scripts == <<SM90, TopkFallback, PluginBackend, MemoryCap, BudgetGuard>>

Hunks == UNION {{Scripts[s][i] : i \in DOMAIN Scripts[s]} : s \in DOMAIN Scripts}
Regions == {h.region : h \in Hunks}
FileOf(r) == (CHOOSE h \in Hunks : h.region = r).file

\* How often a text is found; "kept" holds the text it replaced.
CountOld(h) == IF text[h.region] = h.old \/ (h.new = "kept" /\ text[h.region] = "kept") THEN 1
               ELSE IF h.new = "kept" /\ text[h.region] = "twice" THEN 2 ELSE 0
CountNew(h) == IF text[h.region] = h.new THEN 1 ELSE 0

Skips_Counts(h) == CountOld(h) = 0 /\ CountNew(h) = 1

\* Already there; the sampler of a later base does without the guard.
Skips(h) ==
  IF h.by = "new" THEN CountNew(h) = 1 \/ (h.region = "guard" /\ text[h.region] = "upstream")
  ELSE CountOld(h) = 0 /\ CountNew(h) = 1

Refuses(h) == ~Skips(h) /\ CountOld(h) # 1

Written(h) ==
  [text EXCEPT ![h.region] = IF h.new = "kept" /\ @ = "kept" THEN "twice" ELSE h.new]

\* verify.py: it looks for the backend of capability 12 and at nothing else of these.
Verified ==
  /\ text["list"] \in {"sm90", "plugin"}
  /\ text["capability"] = "new" /\ text["wrapper"] = "new"

-----------------------------------------------------------------------------
\* What a region of the base image may be, no more than one of them not stock.
Moved(r) == {"other"} \cup {h.new : h \in {g \in Hunks : g.region = r}}
            \cup IF r = "guard" THEN {"upstream"} ELSE {}

Init ==
  /\ \E r \in Regions : \E t \in Moved(r) \cup {"stock"} :
       /\ base = IF t = "stock" THEN {} ELSE {r}
       /\ text = [q \in Regions |-> IF q = r THEN t ELSE "stock"]
  /\ layers = text /\ script = 1 /\ hunk = 0
  /\ cut = {} /\ image = "building" /\ fails = 0 /\ reruns = 0 /\ refused = {}

Start ==
  /\ hunk = 0 /\ image = "building" /\ script <= Len(Scripts)
  /\ hunk' = 1 /\ layers' = text
  /\ UNCHANGED <<base, text, script, cut, image, fails, reruns, refused>>

\* A script that succeeded before is run again.
Rerun ==
  /\ hunk = 0 /\ image = "building" /\ reruns < MaxReruns
  /\ \E s \in 1..(script - 1) : script' = s
  /\ reruns' = reruns + 1
  /\ UNCHANGED <<base, text, layers, hunk, cut, image, fails, refused>>

Apply ==
  /\ hunk \in 1..Len(Scripts[script])
  /\ LET h == Scripts[script][hunk] IN
     /\ ~Refuses(h)
     /\ text' = IF Skips(h) THEN text ELSE Written(h)
  /\ hunk' = hunk + 1
  /\ UNCHANGED <<base, layers, script, cut, image, fails, reruns, refused>>

\* The files of the step are lost, or kept.
Ends == hunk' = 0 /\ fails < MaxFails /\ fails' = fails + 1

Refuse ==
  /\ hunk \in 1..Len(Scripts[script]) /\ Refuses(Scripts[script][hunk])
  /\ refused' = refused \cup {<<Scripts[script][hunk], text[Scripts[script][hunk].region]>>}
  /\ Ends /\ text' \in {text, layers}
  /\ UNCHANGED <<base, layers, script, cut, image, reruns>>

\* Between two hunks.
Interrupted ==
  /\ hunk \in 1..Len(Scripts[script])
  /\ Ends /\ text' \in {text, layers}
  /\ UNCHANGED <<base, layers, script, cut, image, reruns, refused>>

\* While the file is written: what of it is kept may hold the hunk.
CutShort ==
  /\ hunk \in 1..Len(Scripts[script])
  /\ LET h == Scripts[script][hunk] IN
     /\ ~Refuses(h) /\ ~Skips(h)
     /\ cut' = cut \cup {h.file}
     /\ \E lost \in SUBSET {r \in Regions : FileOf(r) = h.file} :
          text' = [r \in Regions |-> IF r \in lost THEN "cut" ELSE Written(h)[r]]
  /\ Ends
  /\ UNCHANGED <<base, layers, script, image, reruns, refused>>

Done ==
  /\ hunk > Len(Scripts[script])
  /\ hunk' = 0 /\ script' = script + 1
  /\ UNCHANGED <<base, text, layers, cut, image, fails, reruns, refused>>

Verify ==
  /\ hunk = 0 /\ image = "building" /\ script > Len(Scripts)
  /\ image' = IF Verified THEN "built" ELSE "failed"
  /\ UNCHANGED <<base, text, layers, script, hunk, cut, fails, reruns, refused>>

Next == Start \/ Rerun \/ (hunk > 0 /\ (Apply \/ Refuse \/ Interrupted \/ CutShort \/ Done)) \/ Verify

Spec == Init /\ [][Next]_vars

-----------------------------------------------------------------------------
(* Properties.                                                             *)

TypeOK ==
  /\ DOMAIN text = Regions /\ base \subseteq Regions
  /\ script \in 1..(Len(Scripts) + 1) /\ hunk \in 0..(Len(SM90) + 1)
  /\ cut \subseteq {h.file : h \in Hunks} /\ image \in {"building", "built", "failed"}
  /\ fails \in 0..MaxFails /\ reruns \in 0..MaxReruns

\* "Each replacement must match ... exactly once or we abort.  Already-applied trees
\* are skipped": however scripts are interrupted and run again, an image that is built
\* has every hunk once, but in files that were cut short and kept; and a script refuses
\* only what the base image moved, what was cut, or what a later script has rewritten.
PatchedOnce ==
  /\ image = "built" =>
       \A r \in {q \in Regions : FileOf(q) \notin cut} :
         text[r] \in (IF r = "list" THEN {"plugin"}
                      ELSE {h.new : h \in {g \in Hunks : g.region = r}}
                           \cup IF r = "guard" THEN {"upstream"} ELSE {})
  /\ \A r \in Regions : text[r] # "twice"
  /\ \A x \in refused :
       x[1].region \in base \/ x[2] = "cut" \/ (x[1].region = "list" /\ x[2] = "plugin")
=============================================================================

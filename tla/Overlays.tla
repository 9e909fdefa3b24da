------------------------------- MODULE Overlays -------------------------------
(***************************************************************************)
(* The overlay of the sparse attention (docs/patch_sm121_mla.py): six      *)
(* files are copied out of an image, unless a copy is there already,       *)
(* patched in memory, written beside the copies and verified; a launch     *)
(* that generated them mounts them.  Any step may be the last of its run,  *)
(* and the image may be another one at the next.                           *)
(*                                                                         *)
(* A text is a record: has, the hunks in it; anchors, whether what the     *)
(* other hunks replace is there once; cut, whether its end is missing.     *)
(*                                                                         *)
(* External: the images, whose stock model maps no packed modules, the     *)
(* file system, the launcher.                                              *)
(***************************************************************************)
EXTENDS Naturals, Sequences, FiniteSets

CONSTANTS
  Images,    \* what may be built: which file is not stock, and what it is
  MaxTries,  \* bound on the runs of the script
  MaxMoves   \* bound on the changes of the image

\* Assumed of the constants wherever the module is instantiated.
OverlaysAssumption ==
  /\ Images \subseteq {<<"none", "stock">>, <<"model", "quant">>}
                     \cup {"sm120", "sparse", "cuda", "indexer", "model", "mtp"}
                          \X {"moved", "whole"}
  /\ MaxTries \in Nat /\ MaxMoves \in Nat

VARIABLES
  tag,     \* the image
  copies,  \* copies[f]: the pristine copy of f, or None
  given,   \* what --base-indexer names: a kind of indexer, or "none"
  made,    \* made[f]: f patched in memory, or None
  outs,    \* outs[f]: what was written for f, or None
  step,    \* "idle", "extract", "patch", "write" or "verify"
  ended,   \* how the last run ended
  prior,   \* history: outs when it began
  tries, moves

vars == <<tag, copies, given, made, outs, step, ended, prior, tries, moves>>

FILES == <<"sm120", "sparse", "cuda", "indexer", "model", "mtp">>
Files == {FILES[i] : i \in DOMAIN FILES}
None  == [has |-> {"nothing"}]

Hunks(f) ==
  CASE f = "sm120"   -> {"import", "logger", "prefill", "pad", "query", "rope", "counts",
                         "lengths", "capacity", "update"}
    [] f = "sparse"  -> {"block"}
    [] f = "cuda"    -> {"align"}
    [] f = "indexer" -> {"prefill", "decode"}
    [] f = "model"   -> {"width", "quant"}
    [] f = "mtp"     -> {"width"}

Text(has, anchors) == [has |-> has, anchors |-> anchors, cut |-> FALSE]

\* A file as it comes: stock, moved on, patched before, or a model that was given the
\* hunks for unquantized layers only.
Kind(f, kind) ==
  CASE kind = "stock" -> Text({}, TRUE)
    [] kind = "moved" -> Text({}, FALSE)
    [] kind = "whole" -> Text(Hunks(f), FALSE)
    [] kind = "quant" -> Text({"quant"}, TRUE)

InImage(f) == Kind(f, IF f = tag[1] THEN tag[2] ELSE "stock")

\* Without its end a text may have lost what a hunk is recognized by.
CutShort(t) == {[t EXCEPT !.cut = TRUE], [has |-> {}, anchors |-> FALSE, cut |-> TRUE]}

Init ==
  /\ tag \in Images /\ given = "none"
  /\ copies = [f \in Files |-> None] /\ outs = copies /\ made = copies /\ prior = copies
  /\ step = "idle" /\ ended = "none" /\ tries = 0 /\ moves = 0

-----------------------------------------------------------------------------
(* The patch functions.                                                    *)

\* Each leaves a text alone that has its mark; the mark of the buffer's width is also
\* in the other hunks of a model.
Patched(f, t) ==
  IF f = "model" THEN [t EXCEPT !.has = @ \cup (IF @ = {} THEN {"width"} ELSE {}) \cup {"quant"}]
  ELSE IF t.has # {} THEN t ELSE [t EXCEPT !.has = Hunks(f)]

\* replace_once: an anchor that is not there once.
AnchorError(f, t) == ~t.anchors /\ Patched(f, t) # t

\* The indexer that is mounted without this overlay, if there is one and looks like it.
Source(f) ==
  IF f = "indexer" /\ given # "none" THEN Kind(f, given) ELSE copies[f]

\* verify: a file that is cut may compile.
Accepts ==
  /\ \A f \in Files : Hunks(f) \ {"import", "logger"} \subseteq outs[f].has
  /\ \A f \in Files : outs[f] # None

-----------------------------------------------------------------------------
\* A run that ends while it goes through the files has done the first n of them, and may
\* have cut the next one short.
Ends(how) == step' = "idle" /\ given' = "none" /\ ended' = how
Goes(to)  == step' = to /\ UNCHANGED <<given, ended>>

UpTo(n, old, new) == [f \in Files |-> IF \E i \in 1..n : FILES[i] = f THEN new[f] ELSE old[f]]
StoppedAt(n, fs, old, new) ==
  LET f == FILES[n + 1] IN
  {UpTo(n, old, new)} \cup {[UpTo(n, old, new) EXCEPT ![f] = t] :
                            t \in IF f \in fs THEN CutShort(new[f]) ELSE {}}

Begin ==
  /\ step = "idle" /\ tries < MaxTries
  /\ given' \in {"none", "stock", "moved", "whole"}
  /\ step' = "extract" /\ ended' = "none"
  /\ prior' = outs /\ made' = [f \in Files |-> None] /\ tries' = tries + 1
  /\ UNCHANGED <<tag, copies, outs, moves>>

\* docker cp, for the files there is no copy of.
Extract ==
  /\ step = "extract"
  /\ LET todo == {f \in Files : copies[f] = None}
         got == [f \in Files |-> IF f \in todo THEN InImage(f) ELSE copies[f]] IN
     \/ copies' = got /\ Goes("patch")
     \/ \E n \in 0..(Len(FILES) - 1) :
          copies' \in StoppedAt(n, todo, copies, got) /\ Ends("stopped")
  /\ UNCHANGED <<tag, made, outs, prior, tries, moves>>

\* One file after the other, in memory; the first anchor error ends it.
Patch ==
  /\ step = "patch"
  /\ LET new == [f \in Files |-> Patched(f, Source(f))]
         bad == {i \in DOMAIN FILES : AnchorError(FILES[i], Source(FILES[i]))} IN
     IF bad = {} THEN made' = new /\ Goes("write")
     ELSE \E n \in bad : /\ \A i \in bad : n <= i
                         /\ made' = UpTo(n - 1, made, new) /\ Ends("anchor")
  /\ UNCHANGED <<tag, copies, outs, prior, tries, moves>>

\* An output that is there already is left.
Write_Missing ==
  /\ step = "write"
  /\ LET new == [f \in Files |-> IF outs[f] = None THEN made[f] ELSE outs[f]] IN
     \/ outs' = new /\ Goes("verify")
     \/ \E n \in 0..(Len(FILES) - 1) :
          outs' \in StoppedAt(n, {f \in Files : outs[f] = None}, outs, new) /\ Ends("stopped")
  /\ UNCHANGED <<tag, copies, made, prior, tries, moves>>

Write ==
  /\ step = "write"
  /\ \/ outs' = made /\ Goes("verify")
     \/ \E n \in 0..(Len(FILES) - 1) :
          outs' \in StoppedAt(n, Files, outs, made) /\ Ends("stopped")
  /\ UNCHANGED <<tag, copies, made, prior, tries, moves>>

Verify ==
  /\ step = "verify"
  /\ \/ Ends("stopped")
     \/ Accepts /\ Ends("mounted")
     \/ (~Accepts \/ \E f \in Files : outs[f].cut) /\ Ends("verify")
  /\ UNCHANGED <<tag, copies, made, outs, prior, tries, moves>>

\* --verify-only.
VerifyOnly ==
  /\ step = "idle" /\ Accepts /\ ended' = "accepted"
  /\ UNCHANGED <<tag, copies, given, made, outs, step, prior, tries, moves>>

NewImage ==
  /\ step = "idle" /\ moves < MaxMoves /\ moves' = moves + 1
  /\ tag' \in Images
  /\ UNCHANGED <<copies, given, made, outs, step, ended, prior, tries>>

Next == Begin \/ Extract \/ Patch \/ Write \/ Verify \/ VerifyOnly \/ NewImage

Spec == Init /\ [][Next]_vars

-----------------------------------------------------------------------------
(* Properties.                                                             *)

TypeOK ==
  /\ tag \in Images /\ step \in {"idle", "extract", "patch", "write", "verify"}
  /\ DOMAIN copies = Files /\ DOMAIN outs = Files
  /\ ended \in {"none", "stopped", "anchor", "verify", "mounted", "accepted"}
  /\ tries \in 0..MaxTries /\ moves \in 0..MaxMoves

\* "Every anchor must match exactly once or the script aborts with no output written":
\* a run that misses an anchor leaves the outputs as it found them; what verify accepts has
\* every hunk; and a launch mounts what its own run made, with no end missing that its copy
\* had not lost.
OverlayWhole ==
  /\ ended = "anchor" => outs = prior
  /\ ended \in {"mounted", "accepted"} => \A f \in Files : outs[f].has = Hunks(f)
  /\ ended = "mounted" =>
       \A f \in Files : outs[f] = made[f] /\ (outs[f].cut => copies[f].cut)
=============================================================================

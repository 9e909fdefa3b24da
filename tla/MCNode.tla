-------------------------------- MODULE MCNode --------------------------------
(* What surrounds the steps of the engine on a node: the patches of its       *)
(* image and the overlay generated from it, loading and warming up, the       *)
(* monitor of compilations, a chunk of the ring between processes in the      *)
(* memory of an x86, the self-test, the page's measurements and the tool      *)
(* calls between pages.  None reads the state of another, so a behaviour      *)
(* moves one of them, chosen at the start, and the others stay as they were   *)
(* created.                                                                   *)
EXTENDS Integers, Sequences

CONSTANTS
  Parts,                                                         \* what may move
  NChecks, Retries, Waits,                                       \* of SelfTest
  Keep, Chunks, PromptLen, Gains, Ticks, Les,                   \* of Throughput
  MaxScrapes, MaxSteps,
  Nodes, Peers, HostAt, MaxCalls, MaxBoots,                      \* of McpCalls
  MaxFails, MaxReruns,                                           \* of SourcePatches
  Holds, Mtp, LocalExperts, Stores, Keeps,                       \* of WeightLoad
  Specs, Splits, MaxSeqs, MaxTokens, Captures, NumTables, MaxLate, \* of WarmUp
  Threads, Kernels, MaxCompiles,                                 \* of JitMonitor
  Images, MaxTries, MaxMoves,                                    \* of Overlays
  NReaders, MaxMsgs                                              \* of ShmFence

VARIABLES
  part,
  pc, waited, check, attempt, replies, failures, metrics, code,
  gen, prompt, hist, done, decodes, clock, prev, tp, before, answer, steps, scrapes,
  first, told, skipped, worked, freed, seen,
  up, boots, snap, calls, call,
  base, text, layers, script, hunk, cut, image, fails, reruns, refused,
  fp8, kept, todo, pending, loaded,
  specConfig, passes, failed, down, compiled, late,
  silent, active, onCompile, verbose, hooked, warned, depth, open, compiles, log,
  tag, copies, given, made, outs, step, ended, prior, tries, moves,
  mem, buf, wpc, wi, sent, loads, taken, got

-----------------------------------------------------------------------------
(* What the runs give some of the constants.                               *)

\* A minute passes, or the clock is set back half a minute.
Minutes == {60, -30}

\* The address of each node.
Addresses == [a1 |-> "h1", a2 |-> "h2"]

\* A stock image, one the last file of which has moved on, one that was patched before, and
\* one whose model was given the hunks for unquantized layers.
FourImages ==
  {<<"none", "stock">>, <<"mtp", "moved">>, <<"sm120", "whole">>, <<"model", "quant">>}

\* A layer with a dense MLP, one with latent attention and experts, and one the main
\* model does not have.
ThreeLayers ==
  << {<<"gate_proj", 0>>},
     {<<"q_a_proj", 0>>, <<"kv_a_proj", 0>>, <<"o_proj", 0>>, <<"wk", 0>>,
      <<"gate_proj", 1>>, <<"gate_proj", 2>>},
     {<<"weights_proj", 0>>} >>

\* No speculation, MTP and the drafter with the default drafts, a drafter with as few drafts
\* as MTP, and one without any.
FiveSpecs ==
  {[method |-> "none", n |-> 0], [method |-> "mtp", n |-> 4], [method |-> "dflash", n |-> 7],
   [method |-> "dflash", n |-> 4], [method |-> "dflash", n |-> 0]}

\* Fewer splits the more tokens there are, as if 48 of them were shared by tiles of 32 tokens.
TileSplits == [t \in 1..140 |-> 48 \div ((t + 31) \div 32)]

-----------------------------------------------------------------------------
Gate    == INSTANCE SelfTest
Rates   == INSTANCE Throughput
Mcp     == INSTANCE McpCalls
Patches == INSTANCE SourcePatches
Weights == INSTANCE WeightLoad
Warm    == INSTANCE WarmUp WITH todo <- passes
Monitor == INSTANCE JitMonitor WITH calls <- compiles, MaxCalls <- MaxCompiles
Over    == INSTANCE Overlays
Ring    == INSTANCE ShmFence WITH seen <- loads, WeakStores <- FALSE, WeakLoads <- FALSE

ASSUME NodeAssumption ==
  /\ Gate!TestAssumption /\ Rates!ThroughputAssumption /\ Mcp!McpAssumption
  /\ Patches!PatchesAssumption /\ Weights!LoadAssumption /\ Warm!WarmUpAssumption
  /\ Monitor!MonitorAssumption /\ Ring!FenceAssumption /\ Over!OverlaysAssumption

gateVars    == <<pc, waited, check, attempt, replies, failures, metrics, code>>
ratesVars   == <<gen, prompt, hist, done, decodes, clock, prev, tp, before, answer, steps,
                 scrapes, first, told, skipped, worked, freed, seen>>
mcpVars     == <<up, boots, snap, calls, call>>
patchesVars == <<base, text, layers, script, hunk, cut, image, fails, reruns, refused>>
weightsVars == <<fp8, kept, todo, pending, loaded>>
warmVars    == <<specConfig, passes, failed, down, compiled, late>>
monitorVars == <<silent, active, onCompile, verbose, hooked, warned, depth, open, compiles,
                 log>>
overVars    == <<tag, copies, given, made, outs, step, ended, prior, tries, moves>>
ringVars    == <<mem, buf, wpc, wi, sent, loads, taken, got>>

NoSpec == [method |-> "none", n |-> 0]

\* The state in which a part stays that does not move.
Resting ==
  /\ IF part = "patches" THEN TRUE ELSE base = {}
  /\ IF part = "weights" THEN TRUE ELSE fp8 = {} /\ kept = {}
  /\ IF part = "warm" THEN TRUE ELSE specConfig = NoSpec
  /\ IF part = "monitor" THEN TRUE ELSE silent = TRUE
  /\ IF part = "overlays" THEN TRUE ELSE tag = <<"none", "stock">>

Init ==
  /\ part \in Parts /\ Resting
  /\ Gate!Init /\ Rates!Init /\ Mcp!Init /\ Patches!Init /\ Weights!Init /\ Warm!Init
  /\ Monitor!Init /\ Over!Init /\ Ring!Init

GateNext ==
  /\ part = "gate" /\ Gate!Next
  /\ UNCHANGED <<part, ratesVars, mcpVars, patchesVars, weightsVars, warmVars,
                 monitorVars, overVars, ringVars>>

Next ==
  \/ GateNext
  \/ /\ part = "rates" /\ Rates!Next
     /\ UNCHANGED <<part, gateVars, mcpVars, patchesVars, weightsVars, warmVars,
                    monitorVars, overVars, ringVars>>
  \/ /\ part = "mcp" /\ Mcp!Next
     /\ UNCHANGED <<part, gateVars, ratesVars, patchesVars, weightsVars, warmVars,
                    monitorVars, overVars, ringVars>>
  \/ /\ part = "patches" /\ Patches!Next
     /\ UNCHANGED <<part, gateVars, ratesVars, mcpVars, weightsVars, warmVars,
                    monitorVars, overVars, ringVars>>
  \/ /\ part = "weights" /\ Weights!Next
     /\ UNCHANGED <<part, gateVars, ratesVars, mcpVars, patchesVars, warmVars,
                    monitorVars, overVars, ringVars>>
  \/ /\ part = "warm" /\ Warm!Next
     /\ UNCHANGED <<part, gateVars, ratesVars, mcpVars, patchesVars, weightsVars,
                    monitorVars, overVars, ringVars>>
  \/ /\ part = "monitor" /\ Monitor!Next
     /\ UNCHANGED <<part, gateVars, ratesVars, mcpVars, patchesVars, weightsVars, warmVars,
                    overVars, ringVars>>
  \/ /\ part = "overlays" /\ Over!Next
     /\ UNCHANGED <<part, gateVars, ratesVars, mcpVars, patchesVars, weightsVars, warmVars,
                    monitorVars, ringVars>>
  \/ /\ part = "ring" /\ Ring!Next
     /\ UNCHANGED <<part, gateVars, ratesVars, mcpVars, patchesVars, weightsVars, warmVars,
                    monitorVars, overVars>>

vars == <<part, gateVars, ratesVars, mcpVars, patchesVars, weightsVars, warmVars,
          monitorVars, overVars, ringVars>>

\* The fairness of SelfTest.
Spec == Init /\ [][Next]_vars /\ WF_gateVars(GateNext)

\* Each part keeps to its types.
TypeOK ==
  /\ part = "gate"    => Gate!TypeOK
  /\ part = "rates"   => Rates!TypeOK
  /\ part = "mcp"     => Mcp!TypeOK
  /\ part = "patches" => Patches!TypeOK
  /\ part = "weights" => Weights!TypeOK
  /\ part = "warm"    => Warm!TypeOK
  /\ part = "monitor" => Monitor!TypeOK
  /\ part = "ring"    => Ring!TypeOK
  /\ part = "overlays" => Over!TypeOK

\* The properties of the modules, each of the part that moves; they are stated there in full.
\* An exit status of 0 of self-test.py means that every answer was right.
PassedMeansRight == part = "gate" => Gate!PassedMeansRight
\* The windows of throughput_loop cover the life of each engine without gap or overlap.
WindowsTile == part = "rates" => Rates!WindowsTile
\* A window in which the engine worked says so.
BusyShows == part = "rates" => Rates!BusyShows
\* The percentiles a tool call reports are those of the window it watched.
PercentileRight == part = "rates" => Rates!PercentileRight
\* A forwarded tool call is answered for the node it names, after one hop.
AnsweredByNamed == part = "mcp" => Mcp!AnsweredByNamed
\* A tool call ends in a result, also for a node nobody knows.
CallAnswered == part = "mcp" => Mcp!CallAnswered
\* Each hunk is in its file once, and only over the text it was written for.
PatchedOnce == part = "patches" => Patches!PatchedOnce
\* A launch mounts an overlay its own run made, whole; an anchor error writes nothing.
OverlayWhole == part = "overlays" => Over!OverlayWhole
\* Each shard of a fused parameter is loaded once, from its own tensors.
LoadedOnce == part = "weights" => Weights!LoadedOnce
\* What compiles under a request is only what a failed pass left out, or no pass tries.
LateMeansFailed == part = "warm" => Warm!LateMeansFailed
\* A compilation in a running engine is handed to the handler once, which says why it is silent.
ReportedOnce == part = "monitor" => Monitor!ReportedOnce
\* A reader of the ring accepts its next message whole, in the memory of an x86.
AcceptedWhole == part = "ring" => Ring!AcceptedWhole

\* The gate ends, whatever the server does.
GateEnds == part = "gate" ~> pc \in {"exit", "crashed"}
=============================================================================

------------------------------ MODULE MCEvents ------------------------------
(***************************************************************************)
(* The parts of the proxy around its event loop, in one model: descriptors *)
(* and handlers (Lifecycle), timers, the replication stream, the search    *)
(* for DEL commands, and the opening of sockets.  Each has a view of its   *)
(* own of the same program; a behaviour exercises the one that part names  *)
(* and leaves the variables of the others alone.                           *)
(***************************************************************************)
EXTENDS Lifecycle, AeTimers, ReplSync, DelScanner, Anet

Parts == {"descriptors", "timers", "stream", "scanner", "sockets"}

VARIABLE part

ASSUME ScannerAssumption

allVars == <<vars, part, timerVars, syncVars, scanVars, anetVars>>

\* The scanner, which has one initial state per stream, has none when it is not
\* the part.
MCInit ==
  /\ part \in Parts
  /\ Init /\ TimerInit /\ SyncInit /\ AnetInit
  /\ IF part = "scanner" THEN ScanInit
     ELSE /\ kinds = <<>> /\ symbols = <<>> /\ pos = 0 /\ cut = {} /\ short = FALSE
          /\ zeroed = FALSE /\ buf = <<>> /\ queried = <<>>

DescriptorStep == part = "descriptors" /\ Next
                  /\ UNCHANGED <<part, timerVars, syncVars, scanVars, anetVars>>
TimerStep      == part = "timers" /\ TimerNext
                  /\ UNCHANGED <<part, vars, syncVars, scanVars, anetVars>>
SyncOnly(A)    == part = "stream" /\ A
                  /\ UNCHANGED <<part, vars, timerVars, scanVars, anetVars>>
ScanStep       == part = "scanner" /\ ScanNext
                  /\ UNCHANGED <<part, vars, timerVars, syncVars, anetVars>>
SocketStep     == part = "sockets" /\ AnetNext
                  /\ UNCHANGED <<part, vars, timerVars, syncVars, scanVars>>

MCNext == DescriptorStep \/ TimerStep \/ SyncOnly(SyncNext) \/ ScanStep \/ SocketStep

\* The fairness of ReplSync; the properties of the other parts are safety.
MCSpec ==
  /\ MCInit /\ [][MCNext]_allVars
  /\ WF_allVars(SyncOnly(SyncHandler))
  /\ WF_allVars(SyncOnly(Reconnect))
  /\ WF_allVars(SyncOnly(MasterAnswers))
  /\ WF_allVars(SyncOnly(Arrive))

=============================================================================

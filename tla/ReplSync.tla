------------------------------ MODULE ReplSync ------------------------------
(***************************************************************************)
(* readFromMaster of src/proxy/read_handler.c as a parser of the           *)
(* replication stream, with readData's use of errno.  Proxy treats the     *)
(* stream command by command; here it is made of pieces, which a read may   *)
(* return together: the two ends of a line of the handshake, the header of *)
(* the snapshot, its blocks, and three pieces of every command, of which   *)
(* the first is its line "*n".  The handler's loops are cut at every read, *)
(* because the master can go away between two of them.                     *)
(***************************************************************************)
EXTENDS Integers, Sequences

CONSTANTS MaxCommands,  \* bound: commands the master sends on one connection
          Blocks,       \* blocks of a snapshot
          MaxBulk,      \* bound: pieces a number stands for that is no bulk size
          Partial       \* the master may answer PSYNC with +CONTINUE

ASSUME BoundsAssumption == MaxCommands \in Nat /\ Blocks \in Nat \ {0} /\ MaxBulk \in Nat
                    /\ Partial \in BOOLEAN

VARIABLES
  coming,     \* sent by the master, on its way
  stream,     \* arrived, not yet read
  asked,      \* the sync request on its way to the master, or "none"
  answered,   \* the master has answered it
  sent,       \* commands sent on this connection
  end,        \* the master has closed the connection
  state,      \* the global state
  bulk,       \* bulk_size
  rpc,        \* "idle", "header", "line" and "payload" in the two loops, "down", "dead"
  errno,      \* "EAGAIN" or "other"
  forwarded,  \* what was passed to the slave on this connection
  scanned,    \* what processInputBuffer has seen of it
  alone       \* history: the line that starts the synchronisation (SYNC, or the
              \* answer to PSYNC) was read whole, with nothing behind it

masterVars == <<coming, asked, answered, sent, end>>
syncVars == <<masterVars, stream, state, bulk, rpc, errno, forwarded, scanned, alone>>

Piece(kind, n) == [kind |-> kind, n |-> n]
Snapshot == <<Piece("HDR", Blocks)>> \o [i \in 1..Blocks |-> Piece("RDB", i)]
Handshake(kind) == <<Piece(kind, 0), Piece("rest", 0)>>
Command(n) == <<Piece("line", n), Piece("name", n), Piece("key", n)>>

In(p, q) == \E i \in DOMAIN q : q[i] = p

SyncInit ==
  /\ coming = <<>> /\ stream = <<>> /\ asked = "none" /\ answered = FALSE
  /\ sent = 0 /\ end = FALSE
  /\ state = "START" /\ bulk = 0 /\ rpc = "idle" /\ errno = "other"
  /\ forwarded = <<>> /\ scanned = <<>> /\ alone = FALSE

-----------------------------------------------------------------------------
(* The slave and the master *)

\* readFromSlave passes a request on.  SYNC changes the state, if it is found in
\* a read of its six bytes: not when TCP has cut it or put it behind another.
SlaveAsks ==
  /\ rpc = "idle"
  /\ asked = "none"
  /\ asked' \in {"SYNC", "PSYNC"}
  /\ alone' \in IF asked' = "SYNC" THEN BOOLEAN ELSE {FALSE}
  /\ state' = IF alone' THEN "SYNC_START" ELSE state
  /\ UNCHANGED <<coming, stream, answered, sent, end, bulk, rpc, errno, forwarded, scanned>>

MasterAnswers ==
  /\ asked # "none" /\ ~answered /\ ~end
  /\ answered' = TRUE
  /\ coming' \in {coming \o p : p \in
                    CASE asked = "SYNC" -> {Snapshot, <<Piece("ERR", 0)>>}
                      [] OTHER -> {Handshake("FULL") \o Snapshot}
                                    \union IF Partial THEN {Handshake("CONT")} ELSE {}}
  /\ UNCHANGED <<stream, asked, sent, end, state, bulk, rpc, errno, forwarded, scanned, alone>>

MasterSends ==
  /\ answered /\ ~end
  /\ ~In(Piece("ERR", 0), forwarded \o stream \o coming)
  /\ sent < MaxCommands
  /\ sent' = sent + 1
  /\ coming' = coming \o Command(sent')
  /\ UNCHANGED <<stream, asked, answered, end, state, bulk, rpc, errno, forwarded, scanned, alone>>

Arrive ==
  /\ coming # <<>>
  /\ coming' = Tail(coming)
  /\ stream' = Append(stream, Head(coming))
  /\ UNCHANGED <<asked, answered, sent, end, state, bulk, rpc, errno, forwarded, scanned, alone>>

\* The master closes the connection or is gone, with what was on its way.
MasterEnds ==
  /\ rpc \notin {"down", "dead"}
  /\ ~end
  /\ end' = TRUE
  /\ coming' \in {coming, <<>>}
  /\ UNCHANGED <<stream, asked, answered, sent, state, bulk, rpc, errno, forwarded, scanned, alone>>

-----------------------------------------------------------------------------
(* readData *)

\* closeFd.
Reset ==
  /\ coming' = <<>> /\ stream' = <<>> /\ asked' = "none" /\ answered' = FALSE
  /\ sent' = 0 /\ end' = FALSE
  /\ state' = "START"
  /\ forwarded' = <<>> /\ scanned' = <<>> /\ alone' = FALSE
  /\ rpc' = "down"
  /\ UNCHANGED <<bulk, errno>>

\* read returns 0: the connection is closed, or so it seems.
AtEnd == stream = <<>> /\ coming = <<>> /\ end

\* readData at the end of the stream: errno, which read has not set, decides.
EndOfStream ==
  /\ AtEnd
  /\ IF errno # "EAGAIN" THEN Reset
     ELSE UNCHANGED syncVars

\* readData finds nothing yet.
WouldBlock ==
  /\ stream = <<>> /\ ~AtEnd
  /\ errno' = "EAGAIN"
  /\ UNCHANGED <<stream, masterVars, state, bulk, rpc, forwarded, scanned, alone>>

\* n pieces are read and written to client_fd; the write may have to wait.
Pass(n) ==
  /\ stream' = SubSeq(stream, n + 1, Len(stream))
  /\ forwarded' = forwarded \o SubSeq(stream, 1, n)
  /\ errno' \in {errno, "EAGAIN"}

-----------------------------------------------------------------------------
(* readFromMaster *)

\* The event loop calls the handler: SYNC_START_STATE and SYNC_STATE loop.
Called ==
  /\ rpc = "idle"
  /\ stream # <<>> \/ AtEnd
  /\ state \in {"SYNC_START", "SYNC"}
  /\ rpc' = IF state = "SYNC_START" THEN "header" ELSE "payload"
  /\ UNCHANGED <<stream, masterVars, state, bulk, errno, forwarded, scanned, alone>>

\* The numbers strtoull can find in a line that begins with a piece, as far as
\* the rest of the handler can tell: blocks after the header of a snapshot; bytes
\* after a line "*n" or "$n" of a command, which end in the same command, within
\* the next piece and within the same one; in other bytes, any.
SlipBulkSizes(piece) ==
  CASE piece.kind = "HDR"             -> {piece.n - 1}
    [] piece.kind = "line"            -> {1}
    [] piece.kind \in {"name", "key"} -> {0}
    [] OTHER                          -> 0..MaxBulk

BulkSizes(piece) ==
  CASE piece.kind = "HDR"             -> {piece.n}
    [] piece.kind = "line"            -> {1}
    [] piece.kind \in {"name", "key"} -> {0}
    [] OTHER                          -> 0..MaxBulk

\* SYNC_START_STATE reads one line, byte by byte.  A block of a snapshot may have
\* an end of line in it or not, and a "-" in front; the rest of a handshake may
\* be a "\n" alone, which is skipped.
ReadHeader ==
  /\ rpc = "header"
  /\ stream # <<>>
  /\ Pass(1)
  /\ \/ /\ Head(stream).kind \in {"ERR", "RDB"}
        /\ rpc' = "dead"
        /\ UNCHANGED <<state, bulk>>
     \/ /\ Head(stream).kind # "ERR"
        /\ bulk' \in BulkSizes(Head(stream))
        /\ state' = "SYNC"
        /\ rpc' = "idle"
     \/ /\ Head(stream).kind \in {"RDB", "rest"}
        /\ rpc' = IF Head(stream).kind = "RDB" THEN "line" ELSE rpc
        /\ UNCHANGED <<state, bulk>>
  /\ UNCHANGED <<masterVars, scanned, alone>>

\* A line that began in a block goes on.
ReadLine ==
  /\ rpc = "line"
  /\ stream # <<>>
  /\ Pass(1)
  /\ \/ rpc' = "dead" /\ UNCHANGED <<state, bulk>>
     \/ bulk' \in 0..MaxBulk /\ state' = "SYNC" /\ rpc' = "idle"
     \/ Head(stream).kind = "RDB" /\ UNCHANGED <<state, bulk, rpc>>
  /\ UNCHANGED <<masterVars, scanned, alone>>

\* SYNC_STATE: bulk_size is counted down to 0.
ReadPayload ==
  /\ rpc = "payload"
  /\ bulk > 0
  /\ stream # <<>>
  /\ Pass(1)
  /\ bulk' = bulk - 1
  /\ UNCHANGED <<masterVars, state, rpc, scanned, alone>>

SlipPayloadDone ==
  /\ rpc = "payload"
  /\ bulk = 0
  /\ rpc' = "idle"
  /\ UNCHANGED <<stream, masterVars, state, bulk, errno, forwarded, scanned, alone>>

PayloadDone ==
  /\ rpc = "payload"
  /\ bulk = 0
  /\ state' = "RUNNING"
  /\ rpc' = "idle"
  /\ UNCHANGED <<stream, masterVars, bulk, errno, forwarded, scanned, alone>>

InLoop == rpc \in {"header", "line"} \/ (rpc = "payload" /\ bulk > 0)

\* The other states: one read, of what has arrived.
ReadRunning ==
  /\ rpc = "idle" /\ state = "RUNNING"
  /\ \E n \in 1..Len(stream) :
       /\ Pass(n)
       /\ scanned' = scanned \o SubSeq(stream, 1, n)
  /\ UNCHANGED <<masterVars, state, bulk, rpc, alone>>

\* A read that begins with a line of the handshake and returns n pieces.
AtHandshake == Head(stream).kind \in {"CONT", "FULL"}

SlipReadStart ==
  /\ rpc = "idle" /\ state = "START"
  /\ \E n \in 1..Len(stream) :
       /\ Pass(n)
       /\ alone' = (alone \/ (AtHandshake /\ n = 2))
       /\ state' \in IF AtHandshake /\ n # 2 THEN {"START", "SYNC_START"} ELSE {"START"}
  /\ UNCHANGED <<masterVars, bulk, rpc, scanned>>

\* START_STATE: one read, too.  A line of the handshake, which has 11 to 90
\* bytes, is recognised where a read of 10 to 99 bytes begins with it.  That may
\* be so or not when the read ends inside the line or goes on behind it.
ReadStart ==
  /\ rpc = "idle" /\ state = "START"
  /\ \E n \in 1..Len(stream) :
       /\ Pass(n)
       /\ alone' = (alone \/ (AtHandshake /\ n = 2))
       /\ state' \in CASE AtHandshake /\ n = 2 -> {"SYNC_START"}
                      [] AtHandshake /\ n # 2 -> {"START", "SYNC_START"}
                      [] OTHER                -> {"START"}
  /\ UNCHANGED <<masterVars, bulk, rpc, scanned>>

\* readData of the handler, or of one of its loops, returns no bytes.
NoBytes ==
  \/ (InLoop \/ (rpc = "idle" /\ state \in {"START", "RUNNING"})) /\ EndOfStream
  \/ InLoop /\ WouldBlock

\* timeEvent.
Reconnect ==
  /\ rpc = "down"
  /\ rpc' = "idle"
  /\ errno' = "other"
  /\ UNCHANGED <<stream, masterVars, state, bulk, forwarded, scanned, alone>>

Master == SlaveAsks \/ MasterAnswers \/ MasterSends \/ Arrive \/ MasterEnds
SyncHandler ==
  \/ Called \/ ReadHeader \/ ReadLine \/ ReadPayload \/ PayloadDone
  \/ ReadRunning \/ ReadStart \/ NoBytes

SyncNext == Master \/ SyncHandler \/ Reconnect

SyncSpec == SyncInit /\ [][SyncNext]_syncVars

\* The process runs, a master that was asked and has not gone answers, and what
\* was sent arrives.
SyncFairSpec ==
  /\ SyncSpec
  /\ WF_syncVars(SyncHandler) /\ WF_syncVars(Reconnect)
  /\ WF_syncVars(MasterAnswers) /\ WF_syncVars(Arrive)

-----------------------------------------------------------------------------
(* Properties *)

Pieces == [kind : {"HDR", "RDB", "line", "name", "key", "FULL", "CONT", "rest", "ERR"}, n : Nat]

SyncTypeOK ==
  /\ coming \in Seq(Pieces) /\ stream \in Seq(Pieces) /\ forwarded \in Seq(Pieces) /\ scanned \in Seq(Pieces)
  /\ asked \in {"none", "SYNC", "PSYNC"} /\ answered \in BOOLEAN
  /\ sent \in 0..MaxCommands /\ end \in BOOLEAN
  /\ state \in {"START", "SYNC_START", "SYNC", "RUNNING"}
  /\ bulk \in Nat
  /\ rpc \in {"idle", "header", "line", "payload", "down", "dead"}
  /\ errno \in {"EAGAIN", "other"} /\ alone \in BOOLEAN

Continued == In(Piece("CONT", 0), forwarded)

\* What was scanned is the end of what was passed on.
ScannedToTheEnd ==
  /\ Len(scanned) <= Len(forwarded)
  /\ \A i \in DOMAIN scanned : scanned[i] = forwarded[Len(forwarded) - Len(scanned) + i]

\* Every command passed on was scanned from its first line on; but not the first
\* after +CONTINUE, which readFromMaster takes for the announcement of a snapshot.
AllScanned ==
  \A i \in DOMAIN forwarded :
    forwarded[i].kind = "line" /\ (Continued => forwarded[i].n > 1) => In(forwarded[i], scanned)

\* Once the proxy scans commands it passes nothing on that it has not scanned; and
\* when the line that starts the synchronisation was read alone, it scans them
\* all, so that no DEL slips through.
CommandsScanned == ScannedToTheEnd /\ (alone => AllScanned)

\* The same without the condition (README: the proxy delays commands to query
\* deleted values).  After an answer to PSYNC that readFromMaster read together
\* with what follows it, it does not hold.
EveryCommandScanned == asked = "PSYNC" => AllScanned

\* Nothing of the snapshot is taken for a command when the line that announces it
\* was read alone: its header is found, and bulk_size counts it exactly.  A line
\* that was read with the header makes other bytes the header.
SnapshotNotScanned ==
  alone => \A i \in DOMAIN scanned : scanned[i].kind \in {"line", "name", "key"}

\* Once the master has announced a snapshot in a line that was read alone, the
\* proxy gets to RUNNING_STATE, unless the connection ends: the line is recognised
\* and the loops of readFromMaster keep reading.  After +CONTINUE they wait for a
\* command, and after a line that was not read alone perhaps for ever.
SyncCompletes ==
  alone /\ answered /\ ~Continued ~> state = "RUNNING" \/ end \/ rpc \in {"down", "dead"}

=============================================================================

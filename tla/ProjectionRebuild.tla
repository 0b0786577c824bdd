-------------------------- MODULE ProjectionRebuild --------------------------
(***************************************************************************)
(* Restartable projection rebuild (crates/statechronicle-index/src/        *)
(* rebuild.rs).  rebuild_projections_resumable validates the event stream, *)
(* loads its checkpoint, and replays the stream chunk by chunk: the latest *)
(* state of every resource of the chunk goes to the sink, then the         *)
(* checkpoint moves.  Each write may fail, the process may die between two *)
(* of them, two rebuilds under one key may overlap, and the ledger goes on *)
(* committing events meanwhile.                                            *)
(*                                                                         *)
(* A state is held by a slot of a resource: an owner-based resource has    *)
(* one slot, a subject-held one (balances, stacks) a slot per holder, each *)
(* with its own version.  The digest of a state is its slot and version.   *)
(***************************************************************************)
EXTENDS Naturals, Sequences

CONSTANTS Resources,   \* resources of one tenant
          Slots,       \* the states that are versioned
          ResourceOf,  \* the resource of a slot
          Workers,     \* rebuilds that may overlap
          ChunkSize,   \* chunk_size
          MaxEvents,   \* length of the longest log explored
          MaxFaults    \* writes that fail and processes that die

ASSUME RebuildAssumption ==
    /\ ResourceOf \in [Slots -> Resources]
    /\ ChunkSize \in Nat \ {0} /\ MaxEvents \in Nat /\ MaxFaults \in Nat

VARIABLES log,         \* the canonical event stream
          sink,        \* the projection of every resource
          checkpoint,  \* the next event to process, durable
          pc,          \* where each rebuild is
          span,        \* the length of the stream it was called with
          offset,      \* the next event it will process
          todo,        \* the chunk's resources it has still to write
          reply,       \* what its last call returned
          faults       \* failures injected so far

control == <<pc, span, offset, todo, reply>>
vars == <<log, sink, checkpoint, control, faults>>

Blank == [slot |-> "none", version |-> 0]

Init == /\ log = <<>>
        /\ sink = [r \in Resources |-> Blank]
        /\ checkpoint = 0
        /\ pc = [w \in Workers |-> "Idle"]
        /\ span = [w \in Workers |-> 0]
        /\ offset = [w \in Workers |-> 0]
        /\ todo = [w \in Workers |-> {}]
        /\ reply = [w \in Workers |-> "None"]
        /\ faults = 0

Goto(w, label) == pc' = [pc EXCEPT ![w] = label]
Return(w, r) == /\ Goto(w, "Idle")
                /\ reply' = [reply EXCEPT ![w] = r]
                /\ todo' = [todo EXCEPT ![w] = {}]
Fail == faults < MaxFaults /\ faults' = faults + 1

(* The ledger commits an event that moves a slot to its next version.      *)
Of(events, r) == {n \in 1 .. Len(events) : ResourceOf[events[n].slot] = r}
Version(s) == LET own == {n \in 1 .. Len(log) : log[n].slot = s}
              IN IF own = {} THEN 0 ELSE log[CHOOSE n \in own : \A m \in own : m <= n].version

CommitEvent(s) == /\ Len(log) < MaxEvents
                  /\ log' = Append(log, [slot |-> s, version |-> Version(s) + 1])
                  /\ UNCHANGED <<sink, checkpoint, control, faults>>

(* validate_rebuild_stream: the before-state of an event is the after-     *)
(* state of the previous event of its resource.                            *)
Continuous(events) ==
    \A n \in 1 .. Len(events) :
        LET earlier == {m \in Of(events, ResourceOf[events[n].slot]) : m < n}
        IN earlier # {} =>
             LET previous == events[CHOOSE m \in earlier : \A l \in earlier : l <= m]
             IN /\ events[n].version - 1 = previous.version
                /\ events[n].slot = previous.slot

(* A rebuild is called with the stream as it is now.                       *)
Call(w) == /\ pc[w] = "Idle"
           /\ span' = [span EXCEPT ![w] = Len(log)]
           /\ offset' = [offset EXCEPT ![w] = 0]
           /\ IF Continuous(log) THEN Goto(w, "Load") /\ UNCHANGED <<todo, reply>>
              ELSE Return(w, "Invariant")
           /\ UNCHANGED <<log, sink, checkpoint, faults>>

ChunkEnd(w, from) == IF from + ChunkSize < span[w] THEN from + ChunkSize ELSE span[w]
Touched(from, to) == {ResourceOf[log[n].slot] : n \in from + 1 .. to}

(* The next chunk, if the stream has one, else the rebuild is complete.    *)
NextChunk(w, from) ==
    /\ offset' = [offset EXCEPT ![w] = from]
    /\ IF from < span[w]
       THEN /\ Goto(w, "Write")
            /\ todo' = [todo EXCEPT ![w] = Touched(from, ChunkEnd(w, from))]
            /\ UNCHANGED reply
       ELSE Return(w, "Ok")

(* Variant: the checkpoint moves before the chunk's projections are        *)
(* written.                                                                *)
LoadSavesFirst(w) ==
    /\ pc[w] = "Load"
    /\ IF checkpoint > span[w]
       THEN Return(w, "Invariant") /\ UNCHANGED <<offset, checkpoint>>
       ELSE NextChunk(w, checkpoint) /\ checkpoint' = ChunkEnd(w, checkpoint)
    /\ UNCHANGED <<log, sink, span, faults>>

(* Variant: a checkpoint with less than a full chunk after it is refused.  *)
LoadNeedsFullChunk(w) ==
    /\ pc[w] = "Load"
    /\ IF checkpoint + ChunkSize > span[w] THEN Return(w, "Invariant") /\ UNCHANGED offset
       ELSE NextChunk(w, checkpoint)
    /\ UNCHANGED <<log, sink, checkpoint, span, faults>>

(* The checkpoint is loaded; one beyond the stream is an error (another    *)
(* rebuild was called with a longer stream).                               *)
Load(w) == /\ pc[w] = "Load"
           /\ IF checkpoint > span[w] THEN Return(w, "Invariant") /\ UNCHANGED offset
              ELSE NextChunk(w, checkpoint)
           /\ UNCHANGED <<log, sink, checkpoint, span, faults>>

(* The state of a resource after the chunk: its highest version.           *)
Latest(from, to, r) ==
    LET own == {n \in from + 1 .. to : ResourceOf[log[n].slot] = r}
    IN log[CHOOSE n \in own : \A m \in own : log[m].version <= log[n].version]

(* The sink's contract: upserts preserve monotonic versions.               *)
Upsert(r, event) ==
    sink' = IF event.version >= sink[r].version THEN [sink EXCEPT ![r] = event] ELSE sink

(* One projection of the chunk is written; after the last one the          *)
(* checkpoint is next.                                                     *)
Write(w, r) ==
    /\ pc[w] = "Write" /\ r \in todo[w]
    /\ Upsert(r, Latest(offset[w], ChunkEnd(w, offset[w]), r))
    /\ todo' = [todo EXCEPT ![w] = @ \ {r}]
    /\ Goto(w, IF todo[w] = {r} THEN "Save" ELSE "Write")
    /\ UNCHANGED <<log, checkpoint, span, offset, reply, faults>>

(* The checkpoint moves past the chunk.                                    *)
Save(w) == LET end == ChunkEnd(w, offset[w]) IN
           /\ pc[w] = "Save"
           /\ checkpoint' = end
           /\ NextChunk(w, end)
           /\ UNCHANGED <<log, sink, span, faults>>

(* A store is unavailable and the rebuild returns, or its process dies.    *)
Interrupted(w) == /\ Fail
                  /\ pc[w] # "Idle"
                  /\ Return(w, "Sink")
                  /\ UNCHANGED <<log, sink, checkpoint, span, offset>>

Rebuild(w) == Load(w) \/ Save(w) \/ \E r \in Resources : Write(w, r)

Next == \/ \E s \in Slots : CommitEvent(s)
        \/ \E w \in Workers : Call(w) \/ Rebuild(w) \/ Interrupted(w)

Spec == Init /\ [][Next]_vars

(* Fairness: the operator calls a rebuild that has not caught up again,    *)
(* and one that was called runs.                                           *)
FairSpec == Spec /\ \A w \in Workers : WF_vars(Call(w)) /\ WF_vars(Rebuild(w))
-----------------------------------------------------------------------------
(* Type correctness.                                                       *)
TypeOK == /\ \A n \in 1 .. Len(log) : log[n] \in [slot : Slots, version : Nat]
          /\ sink \in [Resources -> [slot : Slots \cup {"none"}, version : Nat]]
          /\ checkpoint \in 0 .. Len(log)
          /\ pc \in [Workers -> {"Idle", "Load", "Write", "Save"}]
          /\ span \in [Workers -> 0 .. Len(log)]
          /\ offset \in [Workers -> 0 .. Len(log)]
          /\ todo \in [Workers -> SUBSET Resources]
          /\ reply \in [Workers -> {"None", "Ok", "Invariant", "Sink"}]
          /\ faults \in 0 .. MaxFaults

Covers(n) == \A m \in 1 .. n : sink[ResourceOf[log[m].slot]].version >= log[m].version

(* "The checkpoint is never advanced past an unsuccessful write": every    *)
(* event before the checkpoint is in the sink, whatever failed, died or    *)
(* overlapped, so that a rebuild resumed from it misses nothing.           *)
CheckpointCovered == Covers(checkpoint)

(* A rebuild that reports success has put every event of the stream it was *)
(* given into the sink, and nothing that is not in the log.                *)
SuccessIsComplete ==
    \A w \in Workers : pc[w] = "Idle" /\ reply[w] = "Ok" =>
        /\ Covers(span[w])
        /\ \A r \in Resources : sink[r] = Blank \/ \E n \in Of(log, r) : sink[r] = log[n]

(* Progress is real: neither the checkpoint nor a success claims an event  *)
(* that is not in the sink.                                                *)
ProgressIsTrue == TypeOK /\ CheckpointCovered /\ SuccessIsComplete

(* The rebuild catches up with every event the ledger commits.             *)
CatchesUp == \A n \in 1 .. MaxEvents : Len(log) = n ~> Len(log) >= n /\ Covers(n)

(* ADR-008: "Projection deletion/rebuild from the event log reproduces the *)
(* canonical state roots and versions": no rebuild refuses the ledger's    *)
(* own log.                                                                *)
LogIsRebuildable == \A w \in Workers : reply[w] # "Invariant"
=============================================================================

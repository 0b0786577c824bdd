---------------------------- MODULE RebuildProofs ----------------------------
(***************************************************************************)
(* Theorems about the restartable projection rebuild: any number of        *)
(* overlapping rebuilds, of failures and of events, chunks of any size.    *)
(***************************************************************************)
EXTENDS ProjectionRebuild, WellFoundedInduction, TLAPS

USE DEF control

Event == [slot : Slots, version : Nat]

(* A slot's versions count its events, so that no version exceeds its      *)
(* event's place in the log.                                               *)
LogInv == log \in Seq(Event) /\ \A n \in 1 .. Len(log) : log[n].version <= n

(* The sink holds nothing that is not in the log.                          *)
SinkInv == \A r \in Resources : sink[r] = Blank \/ \E n \in Of(log, r) : sink[r] = log[n]

InSink(n) == sink[ResourceOf[log[n].slot]].version >= log[n].version

(* The chunk a rebuild is at: everything before it is in the sink, and of  *)
(* the chunk itself everything but the resources still to be written.      *)
ChunkInv(w) ==
    /\ pc[w] \in {"Write", "Save"} =>
          /\ offset[w] < span[w] /\ Covers(offset[w])
          /\ todo[w] \subseteq Touched(offset[w], ChunkEnd(w, offset[w]))
          /\ \A n \in offset[w] + 1 .. ChunkEnd(w, offset[w]) :
                ResourceOf[log[n].slot] \notin todo[w] => InSink(n)
    /\ pc[w] = "Save" => todo[w] = {}
    /\ pc[w] = "Idle" /\ reply[w] = "Ok" => Covers(span[w])

(* The inductive invariant.                                                *)
RebuildInv == /\ TypeOK /\ LogInv /\ SinkInv /\ CheckpointCovered
              /\ \A w \in Workers : ChunkInv(w)

(* A bounded set of naturals that is not empty has a greatest element.     *)
LEMMA Greatest ==
    ASSUME NEW I, I # {}, NEW B \in Nat, NEW f, \A n \in I : f[n] \in Nat /\ f[n] <= B
    PROVE  \E n \in I : \A m \in I : f[m] <= f[n]
<1> DEFINE T == {B - f[n] : n \in I}
<1>1. T \subseteq Nat /\ T # {}
  OBVIOUS
<1>2. PICK x \in T : \A y \in T : <<y, x>> \notin OpToRel(<, Nat)
  BY <1>1, WFMin, NatLessThanWellFounded, Zenon
<1>3. \A y \in T : ~(y < x)
  BY <1>1, <1>2, Zenon DEF OpToRel
<1>4. PICK n \in I : x = B - f[n]
  BY Zenon
<1>5. ASSUME NEW m \in I PROVE f[m] <= f[n]
  <2>1. B - f[m] \in T
    BY Zenon
  <2>2. ~(B - f[m] < B - f[n])
    BY <1>3, <1>4, <2>1, Zenon
  <2> QED
    BY <2>2
<1> QED
  BY <1>5, Zenon

(* The invariant holds of the empty log.                                   *)
LEMMA RebuildInvInit == Init => RebuildInv
<1> SUFFICES ASSUME Init PROVE RebuildInv
  BY Zenon
<1>1. log = <<>> /\ Len(log) = 0 /\ log \in Seq(Event)
  BY DEF Init
<1>2. TypeOK
  BY <1>1, RebuildAssumption DEF Init, TypeOK, Blank
<1>3. LogInv /\ SinkInv /\ CheckpointCovered
  BY <1>1 DEF Init, LogInv, SinkInv, CheckpointCovered, Covers
<1>4. \A w \in Workers : ChunkInv(w)
  BY Zenon DEF Init, ChunkInv
<1> QED
  BY <1>1, <1>2, <1>3, <1>4, Zenon DEF RebuildInv

(* What an event of the log is.                                            *)
LEMMA EventAt ==
    ASSUME LogInv, NEW n \in 1 .. Len(log)
    PROVE  /\ log[n] \in Event /\ log[n].version \in Nat /\ log[n].version <= n
           /\ log[n].slot \in Slots /\ ResourceOf[log[n].slot] \in Resources
<1>1. log[n] \in Event /\ log[n].version <= n
  BY DEF LogInv
<1> QED
  BY <1>1, RebuildAssumption, Zenon DEF Event

(* The version of a slot is that of one of its events.                     *)
LEMMA VersionBound ==
    ASSUME LogInv, NEW s \in Slots
    PROVE  Version(s) \in Nat /\ Version(s) <= Len(log)
<1> DEFINE own == {n \in 1 .. Len(log) : log[n].slot = s}
           f == [n \in own |-> n]
<1>1. CASE own = {}
  BY <1>1 DEF Version, LogInv
<1>2. CASE own # {}
  <2>1. Len(log) \in Nat /\ \A n \in own : f[n] \in Nat /\ f[n] <= Len(log)
    BY DEF LogInv
  <2>2. PICK k \in own : \A m \in own : f[m] <= f[k]
    <3> HIDE DEF own, f
    <3> QED
      BY <1>2, <2>1, Greatest, Zenon
  <2>3. \A m \in own : m <= k
    BY <2>2, Zenon
  <2> DEFINE n == CHOOSE n \in own : \A m \in own : m <= n
  <2>4. n \in own
    <3> HIDE DEF own
    <3> QED
      BY <2>2, <2>3, Zenon
  <2>5. Version(s) = log[n].version
    BY <1>2, Zenon DEF Version
  <2>6. n \in 1 .. Len(log) /\ log[n].version \in Nat /\ log[n].version <= n
    <3>1. n \in 1 .. Len(log)
      BY <2>4, Zenon
    <3> HIDE DEF n
    <3> QED
      BY <3>1, EventAt, Zenon
  <2> QED
    <3> HIDE DEF n
    <3> QED
      BY <2>1, <2>5, <2>6
<1> QED
  BY <1>1, <1>2, Zenon
(* The log is only appended to and sink versions never fall.               *)
Grows == /\ Len(log) <= Len(log') /\ \A n \in 1 .. Len(log) : log'[n] = log[n]
         /\ \A r \in Resources : sink'[r].version >= sink[r].version

(* What the sink covers of the log, it goes on covering.                   *)
LEMMA CoversGrow ==
    ASSUME TypeOK, TypeOK', LogInv, LogInv', Grows
    PROVE  /\ \A n \in 1 .. Len(log) : InSink(n) => InSink(n)'
           /\ \A n \in 0 .. Len(log) : Covers(n) => Covers(n)'
<1>1. ASSUME NEW n \in 1 .. Len(log), InSink(n) PROVE InSink(n)'
  <2> DEFINE r == ResourceOf[log[n].slot]
  <2>1. r \in Resources /\ log[n].version \in Nat
    BY EventAt, Zenon
  <2>2. /\ sink[r].version \in Nat /\ sink'[r].version \in Nat
        /\ sink'[r].version >= sink[r].version
        /\ log'[n] = log[n]
    BY <2>1 DEF TypeOK, Grows
  <2>3. sink[r].version >= log[n].version
    BY <1>1, Zenon DEF InSink
  <2>4. sink'[r].version >= log'[n].version
    <3> HIDE DEF r
    <3> QED
      BY <2>1, <2>2, <2>3
  <2> QED
    BY <2>2, <2>4, Zenon DEF InSink
<1>2. ASSUME NEW n \in 0 .. Len(log), Covers(n) PROVE Covers(n)'
  <2>1. \A m \in 1 .. n : m \in 1 .. Len(log) /\ InSink(m)
    BY <1>2 DEF Covers, InSink, LogInv
  <2> QED
    BY <1>1, <2>1, Zenon DEF Covers, InSink
<1> QED
  BY <1>1, <1>2, Zenon

(* A rebuild that does not move keeps what it knows of its chunk.          *)
LEMMA ChunkFrame ==
    ASSUME TypeOK, TypeOK', LogInv, LogInv', Grows, NEW v \in Workers, ChunkInv(v),
           pc'[v] = pc[v], span'[v] = span[v], offset'[v] = offset[v], todo'[v] = todo[v],
           reply'[v] = reply[v]
    PROVE  ChunkInv(v)'
<1>0. /\ Len(log) \in Nat /\ offset[v] \in 0 .. Len(log) /\ span[v] \in 0 .. Len(log)
      /\ ChunkSize \in Nat \ {0}
  BY RebuildAssumption DEF TypeOK, LogInv
<1>1. ChunkEnd(v, offset[v]) \in 0 .. Len(log) /\ ChunkEnd(v, offset[v])' = ChunkEnd(v, offset[v])
  BY <1>0 DEF ChunkEnd
<1>2. \A n \in offset[v] + 1 .. ChunkEnd(v, offset[v]) : n \in 1 .. Len(log) /\ log'[n] = log[n]
  BY <1>0, <1>1 DEF Grows
<1>3. /\ \A n \in 1 .. Len(log) : InSink(n) => InSink(n)'
      /\ Covers(offset[v]) => Covers(offset[v])'
      /\ Covers(span[v]) => Covers(span[v])'
  BY <1>0, CoversGrow, Zenon
<1>4. ASSUME pc[v] \in {"Write", "Save"}
      PROVE  /\ todo'[v] \subseteq Touched(offset[v], ChunkEnd(v, offset[v]))'
             /\ \A n \in offset'[v] + 1 .. ChunkEnd(v, offset[v])' :
                   ResourceOf[log'[n].slot] \notin todo'[v] => InSink(n)'
  <2>1. /\ todo[v] \subseteq Touched(offset[v], ChunkEnd(v, offset[v]))
        /\ \A n \in offset[v] + 1 .. ChunkEnd(v, offset[v]) :
              ResourceOf[log[n].slot] \notin todo[v] => InSink(n)
    BY <1>4, Zenon DEF ChunkInv
  <2>2. todo'[v] \subseteq Touched(offset[v], ChunkEnd(v, offset[v]))'
    BY <1>1, <1>2, <2>1 DEF Touched
  <2>3. ASSUME NEW n \in offset[v] + 1 .. ChunkEnd(v, offset[v]), ResourceOf[log'[n].slot] \notin todo'[v]
        PROVE  InSink(n)'
    BY <1>2, <1>3, <2>1, <2>3, Zenon
  <2> QED
    BY <1>1, <2>2, <2>3, Zenon
<1> QED
  BY <1>3, <1>4, Zenon DEF ChunkInv
(* The latest state of a resource in a chunk: an event of that resource,   *)
(* of a version no lower than any of its events in the chunk.              *)
LEMMA LatestOf ==
    ASSUME LogInv, NEW from \in Nat, NEW to \in 0 .. Len(log), NEW r \in Touched(from, to)
    PROVE  /\ \E k \in Of(log, r) : Latest(from, to, r) = log[k]
           /\ \A n \in from + 1 .. to : ResourceOf[log[n].slot] = r =>
                 log[n].version <= Latest(from, to, r).version
<1> DEFINE own == {n \in from + 1 .. to : ResourceOf[log[n].slot] = r}
           f == [n \in own |-> log[n].version]
<1>1. own # {} /\ Len(log) \in Nat
  BY DEF Touched, LogInv
<1>2. \A n \in own : n \in 1 .. Len(log) /\ n \in Of(log, r)
  BY <1>1 DEF Of
<1>3. \A n \in own : f[n] \in Nat /\ f[n] <= Len(log)
  <2> SUFFICES ASSUME NEW n \in own PROVE f[n] \in Nat /\ f[n] <= Len(log)
    BY Zenon
  <2>1. log[n].version \in Nat /\ log[n].version <= n /\ n \in 1 .. Len(log)
    BY <1>2, EventAt, Zenon
  <2> QED
    BY <1>1, <2>1
<1>4. \E n \in own : \A m \in own : log[m].version <= log[n].version
  <2>1. \E n \in own : \A m \in own : f[m] <= f[n]
    <3> HIDE DEF own, f
    <3> QED
      BY <1>1, <1>3, Greatest, Zenon
  <2> QED
    BY <2>1, Zenon
<1> DEFINE k == CHOOSE n \in own : \A m \in own : log[m].version <= log[n].version
<1>5. k \in own /\ \A m \in own : log[m].version <= log[k].version
  <2> HIDE DEF own
  <2> QED
    BY <1>4, Zenon
<1>6. Latest(from, to, r) = log[k]
  BY Zenon DEF Latest
<1> HIDE DEF k
<1> QED
  BY <1>2, <1>5, <1>6, Zenon

(* A rebuild that has put everything before "from" into the sink goes on   *)
(* to the chunk after it, or is done.                                      *)
LEMMA NextChunkStep ==
    ASSUME TypeOK, TypeOK', LogInv, NEW w \in Workers, NEW from \in 0 .. span[w], Covers(from),
           NextChunk(w, from), UNCHANGED <<log, sink, span>>
    PROVE  ChunkInv(w)'
<1>0. span[w] \in Nat /\ ChunkSize \in Nat \ {0} /\ span'[w] = span[w]
  BY RebuildAssumption DEF TypeOK, LogInv
<1>1. CASE from < span[w]
  <2>1. /\ offset'[w] = from /\ pc'[w] = "Write"
        /\ todo'[w] = Touched(from, ChunkEnd(w, from))
    BY <1>1 DEF NextChunk, Goto, TypeOK
  <2>2. ChunkEnd(w, offset[w])' = ChunkEnd(w, from)
    BY <1>0, <2>1, Zenon DEF ChunkEnd
  <2>3. Touched(offset[w], ChunkEnd(w, offset[w]))' = todo'[w]
    BY <2>1, <2>2, Zenon DEF Touched
  <2>4. Covers(offset[w])'
    BY <2>1, Zenon DEF Covers
  <2>5. \A n \in offset'[w] + 1 .. ChunkEnd(w, offset[w])' : ResourceOf[log'[n].slot] \in todo'[w]
    BY <2>3, Zenon DEF Touched
  <2> QED
    BY <1>0, <1>1, <2>1, <2>3, <2>4, <2>5, Zenon DEF ChunkInv
<1>2. CASE ~(from < span[w])
  <2>1. pc'[w] = "Idle" /\ from = span[w]
    BY <1>0, <1>2 DEF NextChunk, Return, Goto, TypeOK
  <2>2. Covers(span[w])'
    BY <1>0, <2>1, Zenon DEF Covers
  <2> QED
    BY <2>1, <2>2, Zenon DEF ChunkInv
<1> QED
  BY <1>1, <1>2, Zenon
(* The log, the sink and the types, after every step.                      *)
LEMMA StoresStep ==
    ASSUME RebuildInv, [Next]_vars
    PROVE  TypeOK' /\ LogInv' /\ SinkInv' /\ Grows
<1> USE DEF RebuildInv
<1>0. /\ Len(log) \in Nat /\ log \in Seq(Event) /\ ChunkSize \in Nat \ {0}
      /\ Len(log) <= Len(log)
      /\ \A w \in Workers : offset[w] \in 0 .. Len(log) /\ span[w] \in 0 .. Len(log)
      /\ \A r \in Resources : sink[r].version \in Nat /\ sink[r].version >= sink[r].version
  BY RebuildAssumption DEF LogInv, TypeOK
<1>1. ASSUME UNCHANGED <<log, sink>> PROVE LogInv' /\ SinkInv' /\ Grows
  BY <1>0, <1>1 DEF LogInv, SinkInv, Grows, Of
<1>2. ASSUME NEW s \in Slots, CommitEvent(s) PROVE TypeOK' /\ LogInv' /\ SinkInv' /\ Grows
  <2> DEFINE e == [slot |-> s, version |-> Version(s) + 1]
  <2>1. e \in Event /\ e.version <= Len(log) + 1
    BY <1>0, VersionBound DEF Event
  <2>2. log' = Append(log, e) /\ UNCHANGED <<sink, checkpoint, pc, span, offset, todo, reply, faults>>
    BY <1>2, Zenon DEF CommitEvent
  <2> HIDE DEF e
  <2>3. /\ log' \in Seq(Event) /\ Len(log') = Len(log) + 1 /\ log'[Len(log) + 1] = e
        /\ \A n \in 1 .. Len(log) : log'[n] = log[n]
    BY <1>0, <2>1, <2>2
  <2>4. LogInv'
    <3> SUFFICES ASSUME NEW n \in 1 .. Len(log) + 1 PROVE log'[n].version <= n
      BY <2>3, Zenon DEF LogInv
    <3>1. CASE n = Len(log) + 1
      BY <2>1, <2>3, <3>1, Zenon
    <3>2. CASE n \in 1 .. Len(log)
      BY <2>3, <3>2, Zenon DEF LogInv
    <3> QED
      BY <1>0, <3>1, <3>2
  <2>5. Grows
    BY <1>0, <2>2, <2>3 DEF Grows
  <2>6. SinkInv'
    <3>1. \A r \in Resources : \A n \in Of(log, r) : n \in Of(log', r) /\ log'[n] = log[n]
      BY <1>0, <2>3 DEF Of
    <3>2. \A r \in Resources : sink[r] = Blank \/ \E n \in Of(log', r) : sink[r] = log'[n]
      BY <3>1, Zenon DEF SinkInv
    <3> QED
      BY <2>2, <3>2 DEF SinkInv, Of
  <2>7. TypeOK'
    <3>1. \A n \in 1 .. Len(log') : log'[n] \in [slot : Slots, version : Nat]
      <4>1. \A n \in 1 .. Len(log') : log'[n] \in Event
        BY <2>3
      <4> QED
        BY <4>1, Zenon DEF Event
    <3>2. \A n \in 0 .. Len(log) : n \in 0 .. Len(log')
      BY <1>0, <2>3
    <3>3. /\ checkpoint' \in 0 .. Len(log')
          /\ span' \in [Workers -> 0 .. Len(log')] /\ offset' \in [Workers -> 0 .. Len(log')]
      BY <2>2, <3>2, Zenon DEF TypeOK
    <3> QED
      BY <2>2, <3>1, <3>3, Zenon DEF TypeOK
  <2> QED
    BY <2>4, <2>5, <2>6, <2>7, Zenon
<1>3. ASSUME NEW w \in Workers, Call(w) PROVE TypeOK' /\ LogInv' /\ SinkInv' /\ Grows
  <2>1. UNCHANGED <<log, sink, checkpoint, faults>>
    BY <1>3, Zenon DEF Call
  <2>2. span' \in [Workers -> 0 .. Len(log)] /\ offset' \in [Workers -> 0 .. Len(log)]
    BY <1>0, <1>3 DEF Call, TypeOK
  <2>3. /\ pc' \in [Workers -> {"Idle", "Load", "Write", "Save"}] /\ todo' \in [Workers -> SUBSET Resources]
        /\ reply' \in [Workers -> {"None", "Ok", "Invariant", "Sink"}]
    BY <1>3, Zenon DEF Call, Return, Goto, TypeOK
  <2> QED
    BY <1>1, <2>1, <2>2, <2>3, Zenon DEF TypeOK
<1>4. ASSUME NEW w \in Workers, NEW from \in 0 .. span[w], NextChunk(w, from),
             checkpoint' \in 0 .. Len(log), UNCHANGED <<log, sink, span, faults>>
      PROVE  TypeOK' /\ LogInv' /\ SinkInv' /\ Grows
  <2>1. from \in 0 .. Len(log) /\ ChunkEnd(w, from) \in 0 .. Len(log)
    BY <1>0 DEF ChunkEnd
  <2>2. Touched(from, ChunkEnd(w, from)) \subseteq Resources
    <3>1. \A n \in from + 1 .. ChunkEnd(w, from) : n \in 1 .. Len(log)
      BY <1>0, <2>1
    <3> QED
      BY <3>1, EventAt, Zenon DEF Touched
  <2>3. offset' \in [Workers -> 0 .. Len(log)]
    BY <1>4, <2>1, Zenon DEF NextChunk, TypeOK
  <2>4. /\ pc' \in [Workers -> {"Idle", "Load", "Write", "Save"}] /\ todo' \in [Workers -> SUBSET Resources]
        /\ reply' \in [Workers -> {"None", "Ok", "Invariant", "Sink"}]
    <3>1. pc \in [Workers -> {"Idle", "Load", "Write", "Save"}] /\ todo \in [Workers -> SUBSET Resources]
          /\ reply \in [Workers -> {"None", "Ok", "Invariant", "Sink"}]
      BY Zenon DEF TypeOK
    <3> QED
      BY <1>4, <2>2, <3>1 DEF NextChunk, Return, Goto
  <2> QED
    BY <1>1, <1>4, <2>3, <2>4, Zenon DEF TypeOK
<1>5. ASSUME NEW w \in Workers, Load(w) PROVE TypeOK' /\ LogInv' /\ SinkInv' /\ Grows
  <2>1. CASE checkpoint > span[w]
    BY <1>1, <1>5, <2>1, Zenon DEF Load, Return, Goto, TypeOK
  <2>2. CASE ~(checkpoint > span[w])
    <3>1. checkpoint \in 0 .. span[w] /\ checkpoint' \in 0 .. Len(log)
      BY <1>0, <1>5, <2>2 DEF Load, TypeOK
    <3> QED
      BY <1>4, <1>5, <2>2, <3>1, Zenon DEF Load
  <2> QED
    BY <2>1, <2>2, Zenon
<1>6. ASSUME NEW w \in Workers, Save(w) PROVE TypeOK' /\ LogInv' /\ SinkInv' /\ Grows
  <2>1. ChunkEnd(w, offset[w]) \in 0 .. span[w] /\ ChunkEnd(w, offset[w]) \in 0 .. Len(log)
    BY <1>0 DEF ChunkEnd
  <2> QED
    BY <1>4, <1>6, <2>1, Zenon DEF Save
<1>7. ASSUME NEW w \in Workers, Interrupted(w) PROVE TypeOK' /\ LogInv' /\ SinkInv' /\ Grows
  <2>1. faults' \in 0 .. MaxFaults
    BY <1>7, RebuildAssumption DEF Interrupted, Fail, TypeOK
  <2> QED
    BY <1>1, <1>7, <2>1, Zenon DEF Interrupted, Return, Goto, TypeOK
<1>8. ASSUME NEW w \in Workers, NEW r \in Resources, Write(w, r)
      PROVE  TypeOK' /\ LogInv' /\ SinkInv' /\ Grows
  <2> DEFINE e == Latest(offset[w], ChunkEnd(w, offset[w]), r)
  <2>1. UNCHANGED <<log, checkpoint, span, offset, reply, faults>>
    BY <1>8, Zenon DEF Write
  <2>2. PICK k \in Of(log, r) : e = log[k]
    <3>1. r \in Touched(offset[w], ChunkEnd(w, offset[w]))
      BY <1>8, Zenon DEF Write, ChunkInv
    <3>2. ChunkEnd(w, offset[w]) \in 0 .. Len(log) /\ offset[w] \in Nat
      BY <1>0 DEF ChunkEnd
    <3> QED
      BY <3>1, <3>2, LatestOf, Zenon
  <2>3. e \in Event /\ e.version \in Nat
    BY <2>2, EventAt, Zenon DEF Of
  <2>4. sink' = IF e.version >= sink[r].version THEN [sink EXCEPT ![r] = e] ELSE sink
    BY <1>8, Zenon DEF Write, Upsert
  <2> HIDE DEF e
  <2>5. /\ \A q \in Resources : /\ sink'[q] = sink[q] \/ (q = r /\ sink'[q] = e)
                                /\ sink'[q].version >= sink[q].version
        /\ sink' \in [Resources -> [slot : Slots \cup {"none"}, version : Nat]]
    BY <1>0, <2>3, <2>4, Zenon DEF TypeOK, Event
  <2>6. SinkInv'
    BY <2>1, <2>2, <2>5 DEF SinkInv, Of
  <2>7. LogInv' /\ Grows
    BY <1>0, <2>1, <2>5, Zenon DEF LogInv, Grows
  <2>8. pc' \in [Workers -> {"Idle", "Load", "Write", "Save"}] /\ todo' \in [Workers -> SUBSET Resources]
    BY <1>8, Zenon DEF Write, Goto, TypeOK
  <2> QED
    BY <2>1, <2>5, <2>6, <2>7, <2>8, Zenon DEF TypeOK
<1>9. CASE UNCHANGED vars
  BY <1>1, <1>9, Zenon DEF vars, TypeOK
<1> QED
  BY <1>2, <1>3, <1>5, <1>6, <1>7, <1>8, <1>9, Zenon DEF Next, Rebuild

(* A chunk lies within the log.                                            *)
LEMMA ChunkRange ==
    ASSUME RebuildInv, NEW w \in Workers
    PROVE  /\ Len(log) \in Nat /\ ChunkSize \in Nat \ {0}
           /\ offset[w] \in 0 .. Len(log) /\ span[w] \in 0 .. Len(log)
           /\ ChunkEnd(w, offset[w]) \in 0 .. Len(log)
<1>1. log \in Seq(Event) /\ offset[w] \in 0 .. Len(log) /\ span[w] \in 0 .. Len(log)
  BY Zenon DEF RebuildInv, LogInv, TypeOK
<1>2. Len(log) \in Nat
  BY <1>1
<1>3. ChunkSize \in Nat \ {0}
  BY RebuildAssumption, Zenon
<1>4. ChunkEnd(w, offset[w]) \in 0 .. Len(log)
  BY <1>1, <1>2, <1>3 DEF ChunkEnd
<1> QED
  BY <1>1, <1>2, <1>3, <1>4, Zenon

(* A rebuild with nothing left to write has its whole chunk in the sink.   *)
LEMMA ChunkWritten ==
    ASSUME RebuildInv, NEW w \in Workers, pc[w] = "Save"
    PROVE  Covers(ChunkEnd(w, offset[w]))
<1>0. /\ Len(log) \in Nat /\ offset[w] \in 0 .. Len(log)
      /\ ChunkEnd(w, offset[w]) \in 0 .. Len(log)
  BY ChunkRange, Zenon
<1>1. Covers(offset[w]) /\ \A n \in offset[w] + 1 .. ChunkEnd(w, offset[w]) : InSink(n)
  BY Zenon DEF RebuildInv, ChunkInv
<1>2. \A n \in 1 .. ChunkEnd(w, offset[w]) :
         n \in 1 .. offset[w] \/ n \in offset[w] + 1 .. ChunkEnd(w, offset[w])
  BY <1>0
<1> QED
  BY <1>1, <1>2, Zenon DEF Covers, InSink

(* A projection is written: the chunk's events of that resource are in the *)
(* sink from then on.                                                      *)
LEMMA WriteStep ==
    ASSUME RebuildInv, TypeOK', LogInv', Grows, NEW w \in Workers, NEW r \in Resources, Write(w, r)
    PROVE  ChunkInv(w)'
<1> DEFINE e == Latest(offset[w], ChunkEnd(w, offset[w]), r)
<1>0. /\ Len(log) \in Nat /\ ChunkSize \in Nat \ {0}
      /\ offset[w] \in 0 .. Len(log) /\ span[w] \in 0 .. Len(log)
      /\ ChunkEnd(w, offset[w]) \in 0 .. Len(log)
  BY ChunkRange, Zenon
<1>1. /\ UNCHANGED <<log, span, offset, reply>>
      /\ todo'[w] = todo[w] \ {r} /\ pc'[w] = IF todo[w] = {r} THEN "Save" ELSE "Write"
      /\ r \in todo[w] /\ pc[w] = "Write"
  BY DEF Write, Goto, RebuildInv, TypeOK
<1>2. /\ offset[w] < span[w] /\ Covers(offset[w])
      /\ todo[w] \subseteq Touched(offset[w], ChunkEnd(w, offset[w]))
      /\ \A n \in offset[w] + 1 .. ChunkEnd(w, offset[w]) :
            ResourceOf[log[n].slot] \notin todo[w] => InSink(n)
  BY <1>1, Zenon DEF RebuildInv, ChunkInv
<1>3. ChunkEnd(w, offset[w])' = ChunkEnd(w, offset[w])
  BY <1>1, Zenon DEF ChunkEnd
<1>4. Touched(offset[w], ChunkEnd(w, offset[w]))' = Touched(offset[w], ChunkEnd(w, offset[w]))
  BY <1>1, <1>3, Zenon DEF Touched
<1>5. Covers(offset[w])' /\ \A n \in 1 .. Len(log) : InSink(n) => InSink(n)'
  BY <1>0, <1>1, <1>2, CoversGrow, Zenon DEF RebuildInv, Covers
<1>6. ASSUME NEW n \in offset[w] + 1 .. ChunkEnd(w, offset[w]), ResourceOf[log[n].slot] = r
      PROVE  InSink(n)'
  <2>1. log[n].version <= e.version /\ \E k \in Of(log, r) : e = log[k]
    <3>1. r \in Touched(offset[w], ChunkEnd(w, offset[w])) /\ offset[w] \in Nat /\ LogInv
      BY <1>0, <1>1, <1>2 DEF RebuildInv
    <3> QED
      BY <1>0, <1>6, <3>1, LatestOf, Zenon
  <2>2. e.version \in Nat
    BY <2>1, EventAt, Zenon DEF RebuildInv, Of
  <2>3. log[n].version \in Nat
    <3>1. n \in 1 .. Len(log)
      BY <1>0
    <3> QED
      BY <3>1, EventAt, Zenon DEF RebuildInv
  <2>4. sink' = IF e.version >= sink[r].version THEN [sink EXCEPT ![r] = e] ELSE sink
    BY Zenon DEF Write, Upsert
  <2> HIDE DEF e
  <2>5. sink'[r].version >= e.version /\ sink'[r].version \in Nat
    BY <2>2, <2>4 DEF RebuildInv, TypeOK
  <2> QED
    BY <1>1, <1>6, <2>1, <2>2, <2>3, <2>5 DEF InSink
<1>7. \A n \in offset[w] + 1 .. ChunkEnd(w, offset[w]) :
         ResourceOf[log[n].slot] \notin todo[w] \ {r} => InSink(n)'
  BY <1>0, <1>2, <1>5, <1>6
<1> QED
  BY <1>0, <1>1, <1>2, <1>3, <1>4, <1>5, <1>7, Zenon DEF ChunkInv

(* What every rebuild knows of its chunk, after every step.                *)
LEMMA ChunksStep ==
    ASSUME RebuildInv, TypeOK', LogInv', Grows, [Next]_vars, NEW v \in Workers
    PROVE  ChunkInv(v)'
<1> USE DEF RebuildInv
<1>1. ASSUME pc'[v] = pc[v], span'[v] = span[v], offset'[v] = offset[v], todo'[v] = todo[v],
             reply'[v] = reply[v]
      PROVE  ChunkInv(v)'
  BY <1>1, ChunkFrame, Zenon
<1>2. ASSUME NEW w \in Workers, w # v,
             Call(w) \/ Load(w) \/ Save(w) \/ Interrupted(w) \/ \E r \in Resources : Write(w, r)
      PROVE  ChunkInv(v)'
  <2>1. pc'[v] = pc[v] /\ todo'[v] = todo[v] /\ reply'[v] = reply[v]
    <3>1. ASSUME NEW from, NextChunk(w, from)
          PROVE  pc'[v] = pc[v] /\ todo'[v] = todo[v] /\ reply'[v] = reply[v]
      BY <1>2, <3>1 DEF NextChunk, Return, Goto, TypeOK
    <3>2. ASSUME NEW result, Return(w, result)
          PROVE  pc'[v] = pc[v] /\ todo'[v] = todo[v] /\ reply'[v] = reply[v]
      BY <1>2, <3>2 DEF Return, Goto, TypeOK
    <3>3. CASE Call(w) \/ \E r \in Resources : Write(w, r)
      BY <1>2, <3>2, <3>3 DEF Call, Write, Goto, TypeOK
    <3> QED
      BY <1>2, <3>1, <3>2, <3>3, Zenon DEF Load, Save, Interrupted
  <2>2. span'[v] = span[v] /\ offset'[v] = offset[v]
    <3>1. span \in [Workers -> 0 .. Len(log)] /\ offset \in [Workers -> 0 .. Len(log)]
      BY Zenon DEF RebuildInv, TypeOK
    <3> QED
      BY <1>2, <3>1, Zenon DEF Call, Load, Save, Interrupted, Write, NextChunk
  <2> QED
    BY <1>1, <2>1, <2>2, Zenon
<1>3. ASSUME Call(v) PROVE ChunkInv(v)'
  <2>1. pc'[v] = "Load" \/ (pc'[v] = "Idle" /\ reply'[v] = "Invariant")
    BY <1>3 DEF Call, Return, Goto, TypeOK
  <2> QED
    BY <2>1, Zenon DEF ChunkInv
<1>4. ASSUME Load(v) PROVE ChunkInv(v)'
  <2>1. CASE checkpoint > span[v]
    <3>1. pc'[v] = "Idle" /\ reply'[v] = "Invariant"
      BY <1>4, <2>1 DEF Load, Return, Goto, TypeOK
    <3> QED
      BY <3>1, Zenon DEF ChunkInv
  <2>2. CASE ~(checkpoint > span[v])
    <3>1. checkpoint \in 0 .. span[v]
      BY <2>2 DEF TypeOK, LogInv
    <3> QED
      BY <1>4, <2>2, <3>1, NextChunkStep, Zenon DEF Load, CheckpointCovered
  <2> QED
    BY <2>1, <2>2, Zenon
<1>5. ASSUME Save(v) PROVE ChunkInv(v)'
  <2>1. ChunkEnd(v, offset[v]) \in 0 .. span[v]
    BY RebuildAssumption DEF ChunkEnd, TypeOK, LogInv
  <2>2. Covers(ChunkEnd(v, offset[v]))
    BY <1>5, <2>1, ChunkWritten, Zenon DEF Save
  <2> QED
    BY <1>5, <2>1, <2>2, NextChunkStep, Zenon DEF Save
<1>6. ASSUME Interrupted(v) PROVE ChunkInv(v)'
  <2>1. pc'[v] = "Idle" /\ reply'[v] = "Sink"
    BY <1>6 DEF Interrupted, Return, Goto, TypeOK
  <2> QED
    BY <2>1, Zenon DEF ChunkInv
<1>7. ASSUME NEW r \in Resources, Write(v, r) PROVE ChunkInv(v)'
  BY <1>7, WriteStep, Zenon
<1>8. CASE (\E s \in Slots : CommitEvent(s)) \/ UNCHANGED vars
  BY <1>1, <1>8, Zenon DEF CommitEvent, vars
<1> QED
  BY <1>2, <1>3, <1>4, <1>5, <1>6, <1>7, <1>8, Zenon DEF Next, Rebuild

(* The checkpoint moves only when the chunk before it is in the sink.      *)
LEMMA RebuildInvStep == RebuildInv /\ [Next]_vars => RebuildInv'
<1> SUFFICES ASSUME RebuildInv, [Next]_vars PROVE RebuildInv'
  BY Zenon
<1>1. TypeOK' /\ LogInv' /\ SinkInv' /\ Grows
  BY StoresStep, Zenon
<1>2. \A w \in Workers : ChunkInv(w)'
  BY <1>1, ChunksStep, Zenon
<1>3. CheckpointCovered'
  <2>1. \/ UNCHANGED checkpoint
        \/ \E w \in Workers : pc[w] = "Save" /\ checkpoint' = ChunkEnd(w, offset[w])
    <3>1. ASSUME NEW w \in Workers, Save(w) \/ Load(w)
          PROVE  \/ UNCHANGED checkpoint
                 \/ pc[w] = "Save" /\ checkpoint' = ChunkEnd(w, offset[w])
      BY <3>1, Zenon DEF Save, Load
    <3> QED
      BY <3>1, Zenon DEF Next, Rebuild, CommitEvent, Call, Write, Interrupted, vars
  <2>2. \E n \in 0 .. Len(log) : checkpoint' = n /\ Covers(n)
    <3>1. CASE UNCHANGED checkpoint
      BY <3>1, Zenon DEF RebuildInv, CheckpointCovered, TypeOK
    <3>2. ASSUME NEW w \in Workers, pc[w] = "Save" PROVE ChunkEnd(w, offset[w]) \in 0 .. Len(log)
      BY RebuildAssumption DEF RebuildInv, LogInv, TypeOK, ChunkEnd
    <3> QED
      BY <2>1, <3>1, <3>2, ChunkWritten, Zenon
  <2> QED
    BY <1>1, <2>2, CoversGrow, Zenon DEF RebuildInv, CheckpointCovered, Covers
<1> QED
  BY <1>1, <1>2, <1>3, Zenon DEF RebuildInv

(* rebuild_projections_resumable, overlapping and interrupted at will,     *)
(* never records progress that was not made: the checkpoint is behind what *)
(* the sink holds, and a rebuild that reports success has every event of   *)
(* its stream in the sink and nothing else.                                *)
THEOREM RebuildsAreTrue == Spec => []ProgressIsTrue
<1>1. RebuildInv => ProgressIsTrue
  BY Zenon DEF RebuildInv, ChunkInv, SinkInv, ProgressIsTrue, SuccessIsComplete
<1> QED
  BY <1>1, RebuildInvInit, RebuildInvStep, PTL DEF Spec
=============================================================================

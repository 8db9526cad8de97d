-------------------------- MODULE EventWriterProofs -------------------------
(***************************************************************************)
(* For any calls, scripts, streams and keys: an idempotency key names at   *)
(* most one event, the versions of a stream have no gap, and its hash      *)
(* chain is linked within it.                                              *)
(***************************************************************************)
EXTENDS EventWriter, TLAPS

Labels == {"check", "read", "tx", "done"}

Outcomes == {"ok", "error", "duplicate", "conflict"}

Record == [stream : Streams, version : Nat, key : Keys \union {NoKey},
           source : Calls \X Nat, prev : Nat]

\* The types the proof needs; a call that is not done has a command left.
Typed ==
  /\ store \in Seq(Record)
  /\ keys \subseteq Keys
  /\ pc \in [Calls -> Labels]
  /\ latest \in [Calls -> Nat]
  /\ results \in [Calls -> Seq(Outcomes)]
  /\ \A c \in Calls : pc[c] # "done" => Len(results[c]) < Len(Script[c])

\* What makes the check inside the transaction sufficient: the key of a stored
\* event is among the stored keys, because both are written together.
KeysAreKept ==
  \A n \in DOMAIN store : store[n].key # NoKey => store[n].key \in keys

Versions(s) == {store[n].version : n \in Of(s)}

GapFree(s) == \E k \in Nat : Versions(s) = 1 .. k

\* Gap-freedom survives although the version a call read may be stale when it
\* is used: it is one the stream still has.
VersionInv ==
  /\ \A s \in Streams : GapFree(s)
  /\ \A c \in Calls : pc[c] = "tx" =>
       latest[c] \in {0} \union Versions(Cmd(c).stream)

IInv == Typed /\ KeysAreKept /\ OneEventPerKey /\ ChainIsLinked /\ VersionInv

\* The command a call is handling is one of its script.
LEMMA CmdType ==
  ASSUME Typed, NEW c \in Calls, pc[c] # "done"
  PROVE  Cmd(c) \in Commands
<1>1. Len(results[c]) \in Nat /\ Len(results[c]) < Len(Script[c])
  BY DEF Typed
<1>2. Script[c] \in Seq(Commands)
  BY ScriptAssumption
<1>3. Len(results[c]) + 1 \in 1 .. Len(Script[c])
  BY <1>1, <1>2
<1> QED
  BY <1>2, <1>3 DEF Cmd

\* Returning from Handle keeps the calls well typed.
LEMMA ReturnTyped ==
  ASSUME Typed, NEW c \in Calls, pc[c] # "done", NEW outcome \in Outcomes,
         Return(c, outcome)
  PROVE  /\ pc' \in [Calls -> Labels]
         /\ results' \in [Calls -> Seq(Outcomes)]
         /\ \A d \in Calls : pc'[d] # "done" => Len(results'[d]) < Len(Script[d])
<1>0. /\ pc \in [Calls -> Labels]
      /\ results \in [Calls -> Seq(Outcomes)]
      /\ \A d \in Calls : pc[d] # "done" => Len(results[d]) < Len(Script[d])
  BY DEF Typed
<1>1. results' = [results EXCEPT ![c] = Append(@, outcome)]
  BY DEF Return
<1>2. results' \in [Calls -> Seq(Outcomes)]
  BY <1>0, <1>1
<1>3. \E label \in {"done", "check"} :
        /\ pc' = [pc EXCEPT ![c] = label]
        /\ label = "check" => Len(results[c]) + 1 # Len(Script[c])
  BY DEF Return, Goto
<1>4. PICK label \in {"done", "check"} :
        /\ pc' = [pc EXCEPT ![c] = label]
        /\ label = "check" => Len(results[c]) + 1 # Len(Script[c])
  BY <1>3
<1>5. pc' \in [Calls -> Labels]
  BY <1>0, <1>4 DEF Labels
<1>6. ASSUME NEW d \in Calls, pc'[d] # "done"
      PROVE  Len(results'[d]) < Len(Script[d])
  <2>1. Script[d] \in Seq(Commands) /\ Len(Script[d]) \in Nat
    BY ScriptAssumption
  <2>2. CASE d # c
    <3>1. pc'[d] = pc[d] /\ results'[d] = results[d]
      BY <2>2, <1>0, <1>1, <1>4
    <3> QED
      BY <3>1, <1>0, <1>6
  <2>3. CASE d = c
    <3>1. pc'[c] = label /\ label = "check"
      BY <2>3, <1>0, <1>4, <1>6
    <3>2. Len(results[c]) + 1 # Len(Script[c]) /\ Len(results[c]) < Len(Script[c])
      BY <3>1, <1>0, <1>4
    <3>3. results[c] \in Seq(Outcomes) /\ Len(results[c]) \in Nat
      BY <1>0
    <3>4. results'[c] = Append(results[c], outcome)
      BY <1>0, <1>1
    <3>5. Len(results'[c]) = Len(results[c]) + 1
      BY <3>3, <3>4
    <3> QED
      BY <2>1, <2>3, <3>2, <3>3, <3>5
  <2> QED
    BY <2>2, <2>3
<1> QED
  BY <1>2, <1>5, <1>6

\* Moving on within Handle keeps the calls well typed.
LEMMA GotoTyped ==
  ASSUME Typed, NEW c \in Calls, pc[c] # "done", NEW label \in Labels,
         Goto(c, label), UNCHANGED results
  PROVE  /\ pc' \in [Calls -> Labels]
         /\ \A d \in Calls : pc'[d] # "done" => Len(results'[d]) < Len(Script[d])
BY DEF Typed, Goto

\* A step that leaves the tables alone keeps what is said of them.
LEMMA StoreUnchanged ==
  ASSUME KeysAreKept, OneEventPerKey, ChainIsLinked, UNCHANGED storeVars
  PROVE  KeysAreKept' /\ OneEventPerKey' /\ ChainIsLinked'
BY DEF KeysAreKept, OneEventPerKey, ChainIsLinked, Of, storeVars

\* What the transaction does to the store: a new last record, linked to a head
\* of its stream.
LEMMA AppendShape ==
  ASSUME Typed, NEW c \in Calls, pc[c] = "tx",
         AppendTx(NewEvent(c, latest[c] + 1))
  PROVE  \E e \in Record :
           /\ store' = Append(store, e)
           /\ e.stream = Cmd(c).stream /\ e.key = Cmd(c).key
           /\ e.version = latest[c] + 1
           /\ e.prev \in Heads(e.stream)
<1> DEFINE ev == NewEvent(c, latest[c] + 1)
           rec(p) == [stream |-> ev.stream, version |-> ev.version,
                      key |-> ev.key, source |-> ev.source, prev |-> p]
<1>1. Cmd(c) \in Commands
  BY CmdType
<1>2. /\ ev.stream = Cmd(c).stream /\ ev.key = Cmd(c).key
      /\ ev.version = latest[c] + 1
      /\ ev.source = <<c, Len(results[c]) + 1>>
  BY DEF NewEvent
<1>3. PICK p \in Heads(ev.stream) : store' = Append(store, rec(p))
  BY DEF AppendTx
<1>4. p \in Nat
  BY <1>3 DEF Heads, Of, Typed
<1>5. latest[c] + 1 \in Nat /\ <<c, Len(results[c]) + 1>> \in Calls \X Nat
  BY DEF Typed
<1>6. Cmd(c).stream \in Streams /\ Cmd(c).key \in Keys \union {NoKey}
  BY <1>1 DEF Commands
<1>7. rec(p) \in Record
  BY <1>2, <1>4, <1>5, <1>6 DEF Record
<1>8. /\ rec(p).stream = ev.stream /\ rec(p).key = ev.key
      /\ rec(p).version = ev.version /\ rec(p).prev = p
  OBVIOUS
<1> QED
  BY <1>2, <1>3, <1>7, <1>8

\* Linking the new record to a head of its stream keeps the chains linked.
LEMMA AppendLinked ==
  ASSUME ChainIsLinked, NEW e \in Record, store \in Seq(Record),
         store' = Append(store, e), e.prev \in Heads(e.stream)
  PROVE  ChainIsLinked'
<1>1. /\ Len(store) \in Nat /\ DOMAIN store = 1 .. Len(store)
      /\ DOMAIN store' = 1 .. Len(store) + 1
      /\ \A n \in DOMAIN store : store'[n] = store[n]
      /\ store'[Len(store) + 1] = e
  OBVIOUS
<1>2. ASSUME NEW n \in DOMAIN store'
      PROVE  IF \E m \in Of(store[n].stream)' : m < n
               THEN store'[n].prev \in Of(store[n].stream)' /\ store'[n].prev < n
               ELSE store'[n].prev = 0
  <2>1. CASE n \in DOMAIN store
    <3>1. store'[n] = store[n]
      BY <1>1, <2>1
    <3>2. \A m \in DOMAIN store' : m < n => m \in DOMAIN store
      BY <1>1, <2>1
    <3>3. \A m \in DOMAIN store' : m < n =>
            (m \in Of(store[n].stream)' <=> m \in Of(store[n].stream))
      BY <1>1, <3>1, <3>2 DEF Of
    <3>4. IF \E m \in Of(store[n].stream) : m < n
            THEN store[n].prev \in Of(store[n].stream) /\ store[n].prev < n
            ELSE store[n].prev = 0
      BY <2>1 DEF ChainIsLinked
    <3>5. Of(store[n].stream) \subseteq DOMAIN store' /\ Of(store[n].stream)' \subseteq DOMAIN store'
      BY <1>1 DEF Of
    <3> QED
      BY <3>1, <3>3, <3>4, <3>5
  <2>2. CASE n = Len(store) + 1
    <3>1. store'[n] = e
      BY <1>1, <2>2
    <3>2. \A m \in DOMAIN store' : m < n <=> m \in DOMAIN store
      BY <1>1, <2>2
    <3>3. \A m \in DOMAIN store' : m < n =>
            (m \in Of(store[n].stream)' <=> m \in Of(e.stream))
      BY <1>1, <3>1, <3>2 DEF Of
    <3>4. Of(e.stream) \subseteq DOMAIN store /\ DOMAIN store \subseteq DOMAIN store'
          /\ Of(store[n].stream)' \subseteq DOMAIN store'
      BY <1>1 DEF Of
    <3>5. IF Of(e.stream) = {} THEN e.prev = 0 ELSE e.prev \in Of(e.stream)
      BY DEF Heads
    <3>6. (\E m \in Of(store[n].stream)' : m < n) <=> Of(e.stream) # {}
      BY <3>2, <3>3, <3>4
    <3>7. e.prev \in Of(e.stream) => e.prev \in Of(store[n].stream)' /\ e.prev < n
      BY <3>2, <3>3, <3>4
    <3> QED
      BY <3>1, <3>5, <3>6, <3>7
  <2> QED
    BY <1>1, <2>1, <2>2
<1> QED
  BY <1>2 DEF ChainIsLinked

\* Storing an event together with its unused key keeps keys unique.
LEMMA AppendKeyed ==
  ASSUME KeysAreKept, OneEventPerKey, NEW e \in Record, store \in Seq(Record),
         keys \subseteq Keys, e.key \notin keys,
         store' = Append(store, e), keys' = keys \union ({e.key} \intersect Keys)
  PROVE  KeysAreKept' /\ OneEventPerKey'
<1>1. /\ Len(store) \in Nat /\ DOMAIN store = 1 .. Len(store)
      /\ DOMAIN store' = 1 .. Len(store) + 1
      /\ \A n \in DOMAIN store : store'[n] = store[n]
      /\ store'[Len(store) + 1] = e
  OBVIOUS
<1>2. \A n \in DOMAIN store' : n \in DOMAIN store \/ n = Len(store) + 1
  BY <1>1
<1>3. e.key \in Keys \union {NoKey}
  BY DEF Record
<1>4. KeysAreKept'
  BY <1>1, <1>2, <1>3 DEF KeysAreKept
<1>5. \A n \in DOMAIN store : store[n].key # NoKey => store[n].key # e.key
  BY DEF KeysAreKept
<1>6. OneEventPerKey'
  BY <1>1, <1>2, <1>5 DEF OneEventPerKey
<1> QED
  BY <1>4, <1>6

\* In a stream without gaps the latest version is the number of versions.
LEMMA LatestOfGapFree ==
  ASSUME NEW s, GapFree(s)
  PROVE  GetLatestVersion(s) \in Nat /\ Versions(s) = 1 .. GetLatestVersion(s)
<1>1. PICK k \in Nat : Versions(s) = 1 .. k
  BY DEF GapFree
<1>2. {0} \union Versions(s) = 0 .. k
  BY <1>1
<1>3. Max(0 .. k) = k
  BY <1>1 DEF Max
<1>4. GetLatestVersion(s) = Max({0} \union Versions(s))
  BY DEF GetLatestVersion, Versions
<1> QED
  BY <1>1, <1>2, <1>3, <1>4

\* A step that leaves the store alone keeps the versions.
LEMMA VersionsUnchanged ==
  ASSUME NEW s, store' = store
  PROVE  Versions(s)' = Versions(s) /\ GapFree(s)' = GapFree(s)
BY DEF Versions, Of, GapFree

\* Appending a record adds its version to its stream and to no other.
LEMMA VersionsAppend ==
  ASSUME NEW s, NEW e \in Record, store \in Seq(Record),
         store' = Append(store, e)
  PROVE  Versions(s)' = Versions(s) \union (IF e.stream = s THEN {e.version} ELSE {})
<1>1. /\ Len(store) \in Nat /\ DOMAIN store = 1 .. Len(store)
      /\ DOMAIN store' = 1 .. Len(store) + 1
      /\ \A n \in DOMAIN store : store'[n] = store[n]
      /\ store'[Len(store) + 1] = e
  OBVIOUS
<1>2. Of(s)' = Of(s) \union (IF e.stream = s THEN {Len(store) + 1} ELSE {})
  BY <1>1 DEF Of
<1>3. Of(s) \subseteq DOMAIN store
  BY DEF Of
<1> QED
  BY <1>1, <1>2, <1>3 DEF Versions

LEMMA InitInv == Init => IInv
<1> SUFFICES ASSUME Init PROVE IInv
  OBVIOUS
<1>1. Typed
  <2>1. \A c \in Calls : Len(Script[c]) \in Nat /\ Len(Script[c]) # 0
    BY ScriptAssumption
  <2> QED
    BY <2>1 DEF Init, StoreInit, WriterInit, Typed, Labels
<1>2. DOMAIN store = {}
  BY DEF Init, StoreInit
<1>3. \A s : Of(s) = {}
  BY <1>2 DEF Of
<1>4. \A s : Versions(s) = 1 .. 0
  BY <1>3 DEF Versions
<1>5. VersionInv
  BY <1>4 DEF VersionInv, GapFree, Init, WriterInit
<1> QED
  BY <1>1, <1>2, <1>5 DEF IInv, KeysAreKept, OneEventPerKey, ChainIsLinked

\* A step of one call that leaves the tables alone keeps VersionInv if the
\* call does not get to its transaction.
LEMMA VersionKept ==
  ASSUME Typed, VersionInv, NEW c \in Calls, store' = store,
         \A d \in Calls \ {c} : /\ pc'[d] = pc[d] /\ latest'[d] = latest[d]
                                /\ results'[d] = results[d],
         pc'[c] # "tx"
  PROVE  VersionInv'
<1>1. \A s : Versions(s)' = Versions(s) /\ GapFree(s)' = GapFree(s)
  BY VersionsUnchanged
<1>2. ASSUME NEW d \in Calls, pc'[d] = "tx"
      PROVE  latest'[d] \in {0} \union Versions(Cmd(d).stream)'
  <2>1. d # c /\ pc[d] = "tx" /\ latest'[d] = latest[d] /\ Cmd(d)' = Cmd(d)
    BY <1>2 DEF Cmd
  <2> QED
    BY <1>1, <2>1 DEF VersionInv
<1> QED
  BY <1>1, <1>2 DEF VersionInv

\* After Return the call is not in its transaction and no other call moved.
LEMMA ReturnFrame ==
  ASSUME Typed, NEW c \in Calls, NEW outcome, Return(c, outcome)
  PROVE  /\ pc'[c] # "tx"
         /\ \A d \in Calls \ {c} : pc'[d] = pc[d] /\ results'[d] = results[d]
BY DEF Typed, Return, Goto

LEMMA NextInv == IInv /\ [Next]_vars => IInv'
<1> SUFFICES ASSUME IInv, [Next]_vars PROVE IInv'
  OBVIOUS
<1>0. Typed /\ KeysAreKept /\ OneEventPerKey /\ ChainIsLinked /\ VersionInv
  BY DEF IInv
<1>t. /\ store \in Seq(Record) /\ keys \subseteq Keys
      /\ pc \in [Calls -> Labels] /\ latest \in [Calls -> Nat]
      /\ results \in [Calls -> Seq(Outcomes)]
      /\ \A c \in Calls : pc[c] # "done" => Len(results[c]) < Len(Script[c])
  BY <1>0 DEF Typed
<1>1. CASE UNCHANGED vars
  <2>1. UNCHANGED storeVars /\ UNCHANGED <<pc, latest, results>> /\ store' = store
        /\ keys' = keys
    BY <1>1 DEF vars, writerVars, storeVars
  <2>2. Typed'
    BY <1>0, <2>1 DEF Typed
  <2>3. VersionInv'
    BY <1>0, <2>1, VersionsUnchanged DEF VersionInv, Cmd
  <2> QED
    BY <1>0, <2>1, <2>2, <2>3, StoreUnchanged DEF IInv
<1>2. ASSUME NEW c \in Calls, Handle(c)
      PROVE  IInv'
  <2>1. pc[c] # "done"
    BY <1>2 DEF Handle, CheckIdempotency, ReadVersion, Transaction,
                TransactionDuplicate, Fail
  <2>0. Cmd(c).stream \in Streams
    BY <1>0, <2>1, CmdType DEF Commands
  <2>s. {"ok", "error", "duplicate", "conflict"} \subseteq Outcomes
    BY DEF Outcomes
  <2>a. ASSUME UNCHANGED storeVars, latest' \in [Calls -> Nat],
               \A d \in Calls \ {c} : latest'[d] = latest[d],
               NEW outcome \in Outcomes, Return(c, outcome)
        PROVE  IInv'
    <3>1. store' = store /\ keys' = keys
      BY <2>a DEF storeVars
    <3>2. Typed'
      BY <1>0, <1>t, <2>1, <2>a, <3>1, ReturnTyped DEF Typed
    <3>3. VersionInv'
      BY <1>0, <2>a, <3>1, ReturnFrame, VersionKept
    <3> QED
      BY <1>0, <2>a, <3>2, <3>3, StoreUnchanged DEF IInv
  <2>2. CASE CheckIdempotency(c)
    <3>1. UNCHANGED storeVars /\ latest' = latest /\ store' = store /\ keys' = keys
      BY <2>2 DEF CheckIdempotency, storeVars
    <3>2. CASE Return(c, "duplicate")
      BY <1>t, <2>a, <2>s, <3>1, <3>2
    <3>3. CASE Goto(c, "read") /\ UNCHANGED results
      <4>1. "read" \in Labels
        BY DEF Labels
      <4>2. Typed'
        BY <1>0, <1>t, <2>1, <3>1, <3>3, <4>1, GotoTyped DEF Typed
      <4>3. pc'[c] # "tx" /\ \A d \in Calls \ {c} : pc'[d] = pc[d]
        BY <1>t, <3>3 DEF Goto
      <4>4. VersionInv'
        BY <1>0, <3>1, <3>3, <4>3, VersionKept
      <4> QED
        BY <1>0, <3>1, <4>2, <4>4, StoreUnchanged DEF IInv
    <3> QED
      BY <2>2, <3>2, <3>3 DEF CheckIdempotency
  <2>3. CASE ReadVersion(c)
    <3> DEFINE v == GetLatestVersion(Cmd(c).stream)
    <3>1. UNCHANGED storeVars /\ store' = store /\ keys' = keys
          /\ latest' = [latest EXCEPT ![c] = v]
      BY <2>3 DEF ReadVersion, storeVars
    <3>2. GapFree(Cmd(c).stream)
      BY <1>0, <2>0 DEF VersionInv
    <3>3. v \in Nat /\ Versions(Cmd(c).stream) = 1 .. v
      BY <3>2, LatestOfGapFree
    <3> HIDE DEF v
    <3>4. /\ latest' \in [Calls -> Nat] /\ latest'[c] = v
          /\ \A d \in Calls \ {c} : latest'[d] = latest[d]
      BY <1>t, <3>1, <3>3
    <3>5. CASE Return(c, "conflict")
      BY <2>a, <2>s, <3>1, <3>4, <3>5
    <3>6. CASE Goto(c, "tx") /\ UNCHANGED results
      <4>1. "tx" \in Labels
        BY DEF Labels
      <4>2. Typed'
        BY <1>0, <1>t, <2>1, <3>1, <3>4, <3>6, <4>1, GotoTyped DEF Typed
      <4>3. \A s : Versions(s)' = Versions(s) /\ GapFree(s)' = GapFree(s)
        BY <3>1, VersionsUnchanged
      <4>4. ASSUME NEW d \in Calls, pc'[d] = "tx"
            PROVE  latest'[d] \in {0} \union Versions(Cmd(d).stream)'
        <5>1. Cmd(d)' = Cmd(d)
          BY <3>6 DEF Cmd
        <5>2. CASE d = c
          BY <3>3, <3>4, <4>3, <5>1, <5>2
        <5>3. CASE d # c
          <6>1. pc[d] = "tx" /\ latest'[d] = latest[d]
            BY <1>t, <3>4, <3>6, <4>4, <5>3 DEF Goto
          <6> QED
            BY <1>0, <4>3, <5>1, <6>1 DEF VersionInv
        <5> QED
          BY <5>2, <5>3
      <4>5. VersionInv'
        BY <1>0, <4>3, <4>4 DEF VersionInv
      <4> QED
        BY <1>0, <3>1, <4>2, <4>5, StoreUnchanged DEF IInv
    <3> QED
      BY <2>3, <3>5, <3>6 DEF ReadVersion
  <2>4. CASE Transaction(c)
    <3>1. /\ pc[c] = "tx" /\ Cmd(c).key \notin keys
          /\ AppendTx(NewEvent(c, latest[c] + 1))
          /\ keys' = keys \union ({Cmd(c).key} \intersect Keys)
          /\ latest' = latest
      BY <2>4 DEF Transaction
    <3>2. PICK e \in Record :
            /\ store' = Append(store, e)
            /\ e.stream = Cmd(c).stream /\ e.key = Cmd(c).key
            /\ e.version = latest[c] + 1
            /\ e.prev \in Heads(e.stream)
      BY <1>0, <3>1, AppendShape
    <3>4. ChainIsLinked'
      BY <1>0, <1>t, <3>2, AppendLinked
    <3>5. KeysAreKept' /\ OneEventPerKey'
      BY <1>0, <1>t, <3>1, <3>2, AppendKeyed
    <3>6. store' \in Seq(Record) /\ keys' \subseteq Keys
      BY <1>t, <3>1, <3>2
    <3>7. PICK outcome \in {"ok", "error"} : Return(c, outcome)
      BY <2>4 DEF Transaction
    <3>8. Typed'
      BY <1>0, <1>t, <2>1, <2>s, <3>1, <3>6, <3>7, ReturnTyped DEF Typed
    <3>9. \A s : Versions(s)' = Versions(s) \union
                     (IF e.stream = s THEN {latest[c] + 1} ELSE {})
      BY <1>t, <3>2, VersionsAppend
    <3>10. ASSUME NEW s \in Streams
           PROVE  GapFree(s)'
      <4>1. PICK k \in Nat : Versions(s) = 1 .. k
        BY <1>0 DEF VersionInv, GapFree
      <4>2. CASE e.stream # s
        BY <3>9, <4>1, <4>2 DEF GapFree
      <4>3. CASE e.stream = s
        <5>0. latest[c] \in {0} \union Versions(Cmd(c).stream)
          BY <1>0, <3>1 DEF VersionInv
        <5>1. latest[c] \in 0 .. k
          BY <3>2, <4>1, <4>3, <5>0
        <5>2. Versions(s)' = 1 .. k \union {latest[c] + 1}
          BY <3>9, <4>1, <4>3
        <5>3. Versions(s)' = 1 .. k \/ Versions(s)' = 1 .. (k + 1)
          BY <5>1, <5>2
        <5> QED
          BY <5>3, k + 1 \in Nat DEF GapFree
      <4> QED
        BY <4>2, <4>3
    <3>11. ASSUME NEW d \in Calls, pc'[d] = "tx"
           PROVE  latest'[d] \in {0} \union Versions(Cmd(d).stream)'
      <4>1. d # c /\ pc[d] = "tx" /\ results'[d] = results[d]
        BY <1>0, <3>7, <3>11, ReturnFrame
      <4>2. Cmd(d)' = Cmd(d)
        BY <4>1 DEF Cmd
      <4> QED
        BY <1>0, <3>1, <3>9, <4>1, <4>2 DEF VersionInv
    <3>12. VersionInv'
      BY <3>10, <3>11 DEF VersionInv
    <3> QED
      BY <3>4, <3>5, <3>8, <3>12 DEF IInv
  <2>5. CASE TransactionDuplicate(c) \/ Fail(c)
    <3>1. UNCHANGED storeVars /\ latest' = latest
      BY <2>5 DEF TransactionDuplicate, Fail
    <3>2. Return(c, "duplicate") \/ Return(c, "error")
      BY <2>5 DEF TransactionDuplicate, Fail
    <3> QED
      BY <1>t, <2>a, <2>s, <3>1, <3>2
  <2> QED
    BY <1>2, <2>2, <2>3, <2>4, <2>5 DEF Handle
<1> QED
  BY <1>1, <1>2 DEF Next

\* The inductive invariant holds in every reachable state.
THEOREM Invariance == Spec => []IInv
<1> QED
  BY InitInv, NextInv, PTL DEF Spec

\* An idempotency key names at most one stored event, whatever calls race.
THEOREM KeyNamesOneEvent == Spec => []OneEventPerKey
<1>1. IInv => OneEventPerKey
  BY DEF IInv
<1> QED
  BY <1>1, Invariance, PTL

\* Every record is linked to an earlier record of its own stream, and only the
\* first of a stream to none.
THEOREM ChainsAreLinked == Spec => []ChainIsLinked
<1>1. IInv => ChainIsLinked
  BY DEF IInv
<1> QED
  BY <1>1, Invariance, PTL

\* The versions of every stream have no gap, although each is computed from a
\* version that may be stale when the event is stored.
THEOREM VersionsHaveNoGap == Spec => []NoVersionGap
<1>1. IInv => NoVersionGap
  BY LatestOfGapFree DEF IInv, VersionInv, NoVersionGap, Versions
<1> QED
  BY <1>1, Invariance, PTL

=============================================================================

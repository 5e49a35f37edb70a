--------------------------- MODULE WasmHostProofs ---------------------------
(***************************************************************************)
(* Proofs about WasmHost, for any configurations and requests, any memory, *)
(* and audit callbacks that call back into the guest to any depth.         *)
(***************************************************************************)
EXTENDS WasmHost, TLAPS, SequenceTheorems, FiniteSetTheorems

Slots    == {NoPolicy} \cup {Slot(c, s) : c \in Configs, s \in BOOLEAN}
Frames   == [kind : {"new", "ask"}, stage : {"written", "callback", "answered"},
             handle : Nat, sink : BOOLEAN, input : Ptrs, block : Ptrs \cup {NoHandle, Null}]
Histories == [handle : Nat, config : Configs, announced : BOOLEAN, freed : BOOLEAN]

\* The table and the handles given out go side by side.
Entry(i) ==
  /\ made[i].handle = i
  /\ policies[i].live <=> ~ made[i].freed
  /\ policies[i].live => /\ policies[i].config = made[i].config
                         /\ policies[i].sink = made[i].announced

Table ==
  /\ policies \in Seq(Slots) /\ made \in Seq(Histories)
  /\ Len(made) = Len(policies)
  /\ \A i \in 1 .. Len(made) : Entry(i)

\* What a call in progress has in memory.
InMemory(f) ==
  /\ f.input \in Ptrs \cap DOMAIN heap
  /\ heap[f.input] \in IF f.kind = "new" THEN Configs ELSE Requests
  /\ f.stage # "written" => f.block \in DOMAIN heap

Progressed(f) ==
  /\ f.stage = "callback" => f.kind = "new" /\ f.sink = TRUE /\ f.block \in Ptrs
  /\ f.stage = "answered" =>
       /\ f.kind = "ask"
       /\ heap[f.block].allowed = Answer(policies, f.handle, heap[f.input])

\* Calls inside one another share no block, and all but the innermost wait for
\* their callback.
Nested ==
  /\ \A i \in 1 .. Len(frames) - 1 : frames[i].stage = "callback"
  /\ \A i, j \in 1 .. Len(frames) :
        frames[i].stage # "written" =>
          /\ frames[i].block # frames[j].input
          /\ i # j /\ frames[j].stage # "written" => frames[i].block # frames[j].block

\* Nothing is in a block but inputs, results and events of calls in progress.
Accounted ==
  \A p \in Ptrs \cap DOMAIN heap :
     \/ heap[p] \in Configs \cup Requests
     \/ \E i \in 1 .. Len(frames) : frames[i].stage # "written" /\ frames[i].block = p

Calls ==
  /\ frames \in Seq(Frames)
  /\ DOMAIN heap \subseteq Ptrs \cup {Null}
  /\ \A i \in 1 .. Len(frames) : InMemory(frames[i]) /\ Progressed(frames[i])
  /\ Nested /\ Accounted

IInv == Table /\ Calls

-----------------------------------------------------------------------------
\* What is left when the innermost call ends.
LEMMA OuterIs ==
  ASSUME frames \in Seq(Frames), frames # <<>>
  PROVE  /\ Len(frames) \in Nat \ {0}
         /\ Outer \in Seq(Frames) /\ Len(Outer) = Len(frames) - 1
         /\ \A i \in 1 .. Len(frames) - 1 : Outer[i] = frames[i]
         /\ Top \in Frames
  <1>1. Len(frames) \in Nat \ {0}
    BY EmptySeq
  <1>2. \A i \in 1 .. Len(frames) - 1 : frames[i] \in Frames
    BY <1>1, ElementOfSeq
  <1>3. Top \in Frames
    BY <1>1, ElementOfSeq DEF Top
  <1> DEFINE n == Len(frames) - 1
  <1>4. n \in Int /\ n \in Nat /\ \A i \in 1 .. n : frames[i] \in Frames
    BY <1>1, <1>2
  <1>5. /\ SubSeq(frames, 1, n) \in Seq(Frames)
        /\ Len(SubSeq(frames, 1, n)) = IF 1 <= n THEN n - 1 + 1 ELSE 0
        /\ \A i \in 1 .. n - 1 + 1 : SubSeq(frames, 1, n)[i] = frames[1 + i - 1]
    <2> HIDE DEF n
    <2> QED BY <1>4, SubSeqProperties
  <1>6. Outer = SubSeq(frames, 1, n)
    BY DEF Outer
  <1>7. n = Len(frames) - 1
    OBVIOUS
  <1> HIDE DEF n
  <1>8. /\ Len(SubSeq(frames, 1, n)) = n
        /\ \A i \in 1 .. n : SubSeq(frames, 1, n)[i] = frames[i]
    <2>1. n - 1 + 1 = n /\ \A i \in 1 .. n : 1 + i - 1 = i
      BY <1>4
    <2>2. n = 0 \/ 1 <= n
      BY <1>4
    <2> QED BY <1>4, <1>5, <2>1, <2>2
  <1> QED BY <1>1, <1>3, <1>5, <1>6, <1>7, <1>8

\* What is there when the innermost call goes on.
LEMMA SetTopIs ==
  ASSUME frames \in Seq(Frames), frames # <<>>, NEW f \in Frames
  PROVE  /\ SetTop(f) \in Seq(Frames) /\ Len(SetTop(f)) = Len(frames)
         /\ \A i \in 1 .. Len(frames) - 1 : SetTop(f)[i] = frames[i]
         /\ SetTop(f)[Len(frames)] = f
  BY OuterIs, AppendProperties DEF SetTop

\* store_policy appends to the table and moves nothing.
LEMMA StoreAppends ==
  ASSUME policies \in Seq(Slots), NEW slot \in Slots
  PROVE  /\ StorePolicy(policies, slot) \in Seq(Slots)
         /\ Len(StorePolicy(policies, slot)) = Len(policies) + 1
         /\ \A i \in 1 .. Len(policies) : StorePolicy(policies, slot)[i] = policies[i]
         /\ StorePolicy(policies, slot)[Len(policies) + 1] = slot
  <1> DEFINE n == Len(policies)
             t == StorePolicy(policies, slot)
  <1>1. n \in Nat /\ DOMAIN policies = 1 .. n /\ \A i \in 1 .. n : policies[i] \in Slots
    BY LenProperties, ElementOfSeq
  <1>2. t = [i \in 1 .. n + 1 |-> IF i = n + 1 THEN slot ELSE policies[i]]
    <2>1. (1 .. n) \cup {n + 1} = 1 .. n + 1
      BY <1>1
    <2> QED BY <1>1, <2>1 DEF StorePolicy, NewHandle
  <1>3. t \in [1 .. n + 1 -> Slots]
    BY <1>1, <1>2
  <1>4. t \in Seq(Slots) /\ Len(t) = n + 1
    BY <1>1, <1>3, SeqDef, LenProperties
  <1> HIDE DEF n, t
  <1>5. /\ \A i \in 1 .. n : t[i] = policies[i]
        /\ t[n + 1] = slot
    BY <1>1, <1>2
  <1> QED BY <1>4, <1>5 DEF n, t

-----------------------------------------------------------------------------
\* A policy that is stored is one more in the history.
LEMMA StoredMade ==
  ASSUME made \in Seq(Histories), NEW config, NEW sink, Store(config, sink)
  PROVE  /\ Len(made') = Len(made) + 1 /\ Len(made) \in Nat
         /\ \A i \in 1 .. Len(made) : made'[i] = made[i]
         /\ made'[Len(made) + 1].announced = (Top.stage = "callback")
  <1> DEFINE n == Len(made)
             entry == [handle |-> NewHandle(policies), config |-> config,
                       announced |-> Top.stage = "callback", freed |-> FALSE]
  <1>1. n \in Nat /\ DOMAIN made = 1 .. n
    BY LenProperties
  <1>2. made' = Append(made, entry) /\ entry.announced = (Top.stage = "callback")
    BY DEF Store
  <1> HIDE DEF entry
  <1>3. made \in Seq(Histories \cup {entry})
    BY LenProperties, ElementOfSeq, SeqDef
  <1>4. /\ Len(made') = n + 1
        /\ \A i \in 1 .. n : made'[i] = made[i]
        /\ made'[n + 1] = entry
    BY <1>2, <1>3, AppendProperties
  <1> QED BY <1>1, <1>2, <1>4

\* A policy that is stored gets an entry that fits it.
LEMMA StoreKeepsTable ==
  ASSUME Table, NEW config \in Configs, NEW sink \in BOOLEAN, Store(config, sink),
         sink <=> Top.stage = "callback"
  PROVE  Table'
  <1> DEFINE n == Len(policies)
             slot == Slot(config, sink)
             entry == [handle |-> n + 1, config |-> config,
                       announced |-> Top.stage = "callback", freed |-> FALSE]
  <1>1. n \in Nat /\ Len(made) = n
    BY LenProperties DEF Table
  <1>2. slot \in Slots /\ entry \in Histories
    BY <1>1 DEF Slots, Histories
  <1>3. policies' = StorePolicy(policies, slot) /\ made' = Append(made, entry)
    BY DEF Store, NewHandle
  <1>4. /\ slot.live = TRUE /\ slot.config = config /\ slot.sink = sink
        /\ entry.handle = n + 1 /\ entry.config = config /\ entry.freed = FALSE
        /\ entry.announced = sink
    <2>1. sink = (Top.stage = "callback")
      OBVIOUS
    <2>2. entry.announced = (Top.stage = "callback")
      OBVIOUS
    <2> QED BY <2>1, <2>2 DEF Slot
  <1> HIDE DEF n, slot, entry
  <1>5. /\ policies' \in Seq(Slots) /\ Len(policies') = n + 1
        /\ \A i \in 1 .. n : policies'[i] = policies[i]
        /\ policies'[n + 1] = slot
    BY <1>2, <1>3, StoreAppends DEF Table, n
  <1>6. /\ made' \in Seq(Histories) /\ Len(made') = n + 1
        /\ \A i \in 1 .. n : made'[i] = made[i]
        /\ made'[n + 1] = entry
    BY <1>1, <1>2, <1>3, AppendProperties DEF Table
  <1>7. ASSUME NEW i \in 1 .. n + 1 PROVE Entry(i)'
    <2>1. CASE i = n + 1
      BY <2>1, <1>4, <1>5, <1>6 DEF Entry
    <2>2. CASE i # n + 1
      <3>1. i \in 1 .. n
        BY <1>1, <1>7, <2>2
      <3>2. Entry(i)
        BY <1>1, <3>1 DEF Table
      <3> QED BY <3>1, <3>2, <1>5, <1>6 DEF Entry
    <2> QED BY <2>1, <2>2
  <1> QED BY <1>5, <1>6, <1>7 DEF Table

\* A policy that is freed loses its entry and no other does.
LEMMA FreeKeepsTable ==
  ASSUME Table, NEW h \in Given, PolicyFree(h)
  PROVE  Table'
  <1> DEFINE n == Len(made)
  <1>1. /\ n \in Nat /\ Len(policies) = n
        /\ DOMAIN made = 1 .. n /\ DOMAIN policies = 1 .. n
        /\ \A i \in 1 .. n : policies[i] \in Slots /\ made[i] \in Histories
    BY LenProperties, ElementOfSeq DEF Table
  <1>2. \A i \in 1 .. n : Entry(i)
    BY DEF Table
  <1>3. h \in 1 .. n
    BY <1>1, <1>2 DEF Given, Entry
  <1>4. policies' = [policies EXCEPT ![h] = NoPolicy]
    BY <1>1, <1>3 DEF PolicyFree, RemovePolicy
  <1>5. made' = [i \in 1 .. n |-> IF i = h THEN [made[i] EXCEPT !.freed = TRUE] ELSE made[i]]
    BY <1>1, <1>2 DEF PolicyFree, Entry
  <1>6. policies' \in Seq(Slots) /\ Len(policies') = n
    BY <1>1, <1>3, <1>4, ExceptSeq DEF Table, Slots
  <1>7. made' \in [1 .. n -> Histories]
    BY <1>1, <1>5 DEF Histories
  <1>8. made' \in Seq(Histories) /\ Len(made') = n
    BY <1>1, <1>7, SeqDef, LenProperties
  <1>9. ASSUME NEW i \in 1 .. n PROVE Entry(i)'
    <2>1. Entry(i) /\ policies[i] \in Slots /\ made[i] \in Histories
      BY <1>1, <1>2
    <2>2. CASE i = h
      <3>1. policies'[i] = NoPolicy /\ made'[i] = [made[i] EXCEPT !.freed = TRUE]
        BY <1>1, <1>4, <1>5, <2>2
      <3>2. made'[i].freed = TRUE /\ made'[i].handle = made[i].handle
        BY <2>1, <3>1 DEF Histories
      <3>3. policies'[i].live = FALSE
        BY <3>1 DEF NoPolicy
      <3> QED BY <2>1, <3>2, <3>3 DEF Entry
    <2>3. CASE i # h
      <3>1. policies'[i] = policies[i] /\ made'[i] = made[i]
        BY <1>1, <1>4, <1>5, <2>3
      <3> QED BY <2>1, <3>1 DEF Entry
    <2> QED BY <2>2, <2>3
  <1> QED BY <1>6, <1>8, <1>9 DEF Table

\* The host may make a call only where all calls in progress wait.
LEMMA HostRunsWhenAllWait ==
  ASSUME Calls, HostRuns
  PROVE  \A i \in 1 .. Len(frames) : frames[i].stage = "callback"
  <1>1. CASE frames = <<>>
    BY <1>1
  <1>2. CASE frames # <<>>
    <2>1. Len(frames) \in Nat \ {0}
      BY <1>2, OuterIs DEF Calls
    <2> QED BY <1>2, <2>1 DEF HostRuns, Calls, Nested, Top
  <1> QED BY <1>1, <1>2

\* The innermost call is one of those in progress.
LEMMA TopIsCall ==
  ASSUME Calls, frames # <<>>
  PROVE  /\ Len(frames) \in Nat \ {0} /\ Top = frames[Len(frames)]
         /\ Top \in Frames /\ InMemory(Top) /\ Progressed(Top)
  BY OuterIs DEF Calls, Top

\* Each step keeps the table and its history side by side.
LEMMA TableIsInductive == IInv /\ [Next]_vars => Table'
  <1> SUFFICES ASSUME IInv, [Next]_vars PROVE Table'
    OBVIOUS
  <1> USE DEF IInv
  <1>1. CASE PolicyNewSilent
    <2>1. frames # <<>> /\ Top.stage = "written" /\ Top.kind = "new"
      BY <1>1 DEF PolicyNewSilent, At
    <2>2. heap[Top.input] \in Configs
      BY <2>1, TopIsCall DEF InMemory
    <2> QED BY <1>1, <2>1, <2>2, StoreKeepsTable DEF PolicyNewSilent
  <1>2. CASE CallbackReturns
    <2>1. frames # <<>> /\ Top.stage = "callback"
      BY <1>2 DEF CallbackReturns
    <2>2. Top.kind = "new" /\ Top.sink = TRUE
      BY <2>1, TopIsCall DEF Progressed
    <2>3. heap[Top.input] \in Configs
      BY <2>1, <2>2, TopIsCall DEF InMemory
    <2> QED BY <1>2, <2>1, <2>2, <2>3, StoreKeepsTable DEF CallbackReturns
  <1>3. ASSUME NEW h \in Given, PolicyFree(h) PROVE Table'
    BY <1>3, FreeKeepsTable
  <1>4. CASE UNCHANGED <<policies, made>>
    BY <1>4 DEF Table, Entry
  <1> QED
    BY <1>1, <1>2, <1>3, <1>4
       DEF Next, WriteConfig, WriteRequest, Write, PolicyNewFails, PolicyNewEmits,
           GuestAnswers, GuestTraps, WriteFails, ReadResult, SetAuditCallback, vars

-----------------------------------------------------------------------------
\* What is written to a free block or at the null pointer disturbs no block.
LEMMA WithPuts ==
  ASSUME NEW p \in FreePtrs \cup {Null}, NEW content, heap' = With(heap, p, content)
  PROVE  /\ DOMAIN heap' = DOMAIN heap \cup {p} /\ heap'[p] = content
         /\ p \in Ptrs \cup {Null} /\ p \notin Ptrs \cap DOMAIN heap
         /\ \A q \in Ptrs \cap DOMAIN heap : q # p /\ heap'[q] = heap[q]
  BY PtrAssumption DEF With, FreePtrs

\* A call the host makes: its input goes into a block of its own.
LEMMA Pushed ==
  ASSUME Calls, HostRuns, NEW p \in FreePtrs, NEW f \in Frames,
         NEW content \in IF f.kind = "new" THEN Configs ELSE Requests,
         f.stage = "written", f.input = p,
         heap' = With(heap, p, content), frames' = Append(frames, f)
  PROVE  Calls'
  <1> DEFINE n == Len(frames)
  <1>1. /\ n \in Nat /\ frames' \in Seq(Frames) /\ Len(frames') = n + 1
        /\ \A i \in 1 .. n : frames'[i] = frames[i]
        /\ frames'[n + 1] = f
    BY LenProperties, AppendProperties DEF Calls
  <1>2. /\ DOMAIN heap' = DOMAIN heap \cup {p} /\ heap'[p] = content
        /\ p \in Ptrs \cup {Null} /\ p \notin Ptrs \cap DOMAIN heap
        /\ \A q \in Ptrs \cap DOMAIN heap : q # p /\ heap'[q] = heap[q]
    BY WithPuts
  <1>3. \A i \in 1 .. n : frames[i].stage = "callback"
    BY HostRunsWhenAllWait
  <1>4. \A i \in 1 .. n : InMemory(frames[i]) /\ Progressed(frames[i])
    BY DEF Calls
  <1>5. Nested /\ Accounted /\ DOMAIN heap \subseteq Ptrs \cup {Null}
    BY DEF Calls
  <1> HIDE DEF n
  <1>6. DOMAIN heap' \subseteq Ptrs \cup {Null}
    BY <1>2, <1>5
  <1>7. ASSUME NEW i \in 1 .. n + 1
        PROVE  InMemory(frames[i])' /\ Progressed(frames[i])'
    <2>1. CASE i = n + 1
      BY <1>1, <1>2, <2>1 DEF InMemory, Progressed, FreePtrs
    <2>2. CASE i \in 1 .. n
      BY <1>1, <1>2, <1>3, <1>4, <2>2 DEF InMemory, Progressed
    <2> QED BY <1>1, <2>1, <2>2
  <1>8. Nested'
    <2>1. \A i \in 1 .. Len(frames') - 1 : frames'[i].stage = "callback"
      BY <1>1, <1>3
    <2>2. ASSUME NEW i \in 1 .. n + 1, NEW j \in 1 .. n + 1, frames'[i].stage # "written"
          PROVE  /\ frames'[i].block # frames'[j].input
                 /\ i # j /\ frames'[j].stage # "written" =>
                      frames'[i].block # frames'[j].block
      <3>1. /\ i \in 1 .. n /\ frames'[i] = frames[i]
            /\ frames[i].block \in Ptrs \cap DOMAIN heap
        BY <1>1, <1>3, <1>4, <2>2 DEF InMemory, Progressed
      <3>2. CASE j = n + 1
        BY <1>1, <1>2, <3>1, <3>2
      <3>3. CASE j \in 1 .. n
        BY <1>1, <1>5, <2>2, <3>1, <3>3 DEF Nested, n
      <3> QED BY <1>1, <3>2, <3>3
    <2> QED BY <1>1, <2>1, <2>2 DEF Nested
  <1>9. Accounted'
    <2> SUFFICES ASSUME NEW q \in Ptrs \cap DOMAIN heap', heap'[q] \notin Configs \cup Requests
                 PROVE  \E i \in 1 .. n + 1 : frames'[i].stage # "written" /\ frames'[i].block = q
      BY <1>1 DEF Accounted
    <2>1. q # p
      BY <1>2
    <2>2. PICK i \in 1 .. n : frames[i].stage # "written" /\ frames[i].block = q
      BY <1>2, <1>5, <2>1 DEF Accounted, n
    <2> QED BY <1>1, <2>2
  <1> QED BY <1>1, <1>6, <1>7, <1>8, <1>9 DEF Calls

\* The innermost call gets a block from the guest, or the null pointer.
LEMMA Advanced ==
  ASSUME Calls, frames # <<>>, Top.stage = "written", NEW p \in FreePtrs \cup {Null}, NEW content,
         NEW f \in Frames, f.kind = Top.kind, f.input = Top.input, f.block = p,
         f.stage = "callback" => f.kind = "new" /\ f.sink = TRUE /\ f.block \in Ptrs,
         f.stage = "answered" =>
            /\ f.kind = "ask"
            /\ content.allowed = Answer(policies, f.handle, heap[f.input]),
         f.stage # "written",
         policies' = policies, heap' = With(heap, p, content), frames' = SetTop(f)
  PROVE  Calls'
  <1> DEFINE n == Len(frames)
  <1>1. /\ n \in Nat \ {0} /\ frames' \in Seq(Frames) /\ Len(frames') = n
        /\ \A i \in 1 .. n - 1 : frames'[i] = frames[i]
        /\ frames'[n] = f
    BY TopIsCall, SetTopIs DEF Calls
  <1>2. /\ DOMAIN heap' = DOMAIN heap \cup {p} /\ heap'[p] = content
        /\ p \in Ptrs \cup {Null} /\ p \notin Ptrs \cap DOMAIN heap
        /\ \A q \in Ptrs \cap DOMAIN heap : q # p /\ heap'[q] = heap[q]
    BY WithPuts
  <1>3. \A i \in 1 .. n - 1 : frames[i].stage = "callback"
    BY DEF Calls, Nested
  <1>4. \A i \in 1 .. n : InMemory(frames[i]) /\ Progressed(frames[i])
    BY DEF Calls
  <1>5. Nested /\ Accounted /\ DOMAIN heap \subseteq Ptrs \cup {Null}
    BY DEF Calls
  <1>6. frames[n].stage = "written" /\ frames[n].input = f.input /\ frames[n].kind = f.kind
    BY TopIsCall
  <1> HIDE DEF n
  <1>7. DOMAIN heap' \subseteq Ptrs \cup {Null}
    BY <1>2, <1>5
  <1>8. ASSUME NEW i \in 1 .. n
        PROVE  InMemory(frames[i])' /\ Progressed(frames[i])'
    <2>1. CASE i = n
      <3>1. InMemory(frames[n])
        BY <1>1, <1>4
      <3> QED BY <1>1, <1>2, <1>6, <2>1, <3>1 DEF InMemory, Progressed
    <2>2. CASE i \in 1 .. n - 1
      BY <1>1, <1>2, <1>3, <1>4, <2>2 DEF InMemory, Progressed
    <2> QED BY <1>1, <2>1, <2>2
  <1>9. Nested'
    <2>1. \A i \in 1 .. Len(frames') - 1 : frames'[i].stage = "callback"
      BY <1>1, <1>3
    <2>2. \A i \in 1 .. n : /\ frames'[i].input = frames[i].input
                          /\ frames[i].input \in Ptrs \cap DOMAIN heap
      BY <1>1, <1>4, <1>6 DEF InMemory
    <2>3. \A i \in 1 .. n - 1 : frames[i].block \in Ptrs \cap DOMAIN heap
      BY <1>1, <1>3, <1>4 DEF InMemory, Progressed
    <2>4. \A i \in 1 .. n - 1, j \in 1 .. n : frames[i].block # frames[j].input
      BY <1>1, <1>3, <1>5 DEF Nested, n
    <2>5. \A i, j \in 1 .. n - 1 : i # j => frames[i].block # frames[j].block
      BY <1>1, <1>3, <1>5 DEF Nested, n
    <2>6. ASSUME NEW i \in 1 .. n, NEW j \in 1 .. n
          PROVE  /\ frames'[i].block # frames'[j].input
                 /\ i # j => frames'[i].block # frames'[j].block
      <3>1. CASE i = n
        BY <1>1, <1>2, <2>2, <2>3, <3>1
      <3>2. CASE i \in 1 .. n - 1
        <4>1. CASE j = n
          BY <1>1, <1>2, <2>2, <2>3, <2>4, <3>2, <4>1
        <4>2. CASE j \in 1 .. n - 1
          BY <1>1, <2>4, <2>5, <3>2, <4>2
        <4> QED BY <1>1, <4>1, <4>2
      <3> QED BY <1>1, <3>1, <3>2
    <2> QED BY <1>1, <2>1, <2>6 DEF Nested
  <1>10. Accounted'
    <2> SUFFICES ASSUME NEW q \in Ptrs \cap DOMAIN heap', heap'[q] \notin Configs \cup Requests
                 PROVE  \E i \in 1 .. n : frames'[i].stage # "written" /\ frames'[i].block = q
      BY <1>1 DEF Accounted
    <2>1. CASE q = p
      BY <1>1, <2>1
    <2>2. CASE q # p
      <3>1. PICK i \in 1 .. n : frames[i].stage # "written" /\ frames[i].block = q
        BY <1>2, <1>5, <2>2 DEF Accounted, n
      <3>2. i \in 1 .. n - 1
        BY <1>1, <1>6, <3>1
      <3> QED BY <1>1, <3>1, <3>2
    <2> QED BY <2>1, <2>2
  <1> QED BY <1>1, <1>7, <1>8, <1>9, <1>10 DEF Calls

\* The innermost call ends, and the block it has is given back.
LEMMA Popped ==
  ASSUME Calls, frames # <<>>, frames' = Outer,
         \/ Top.stage = "written" /\ heap' = heap
         \/ Top.stage # "written" /\ heap' = Without(heap, Top.block)
  PROVE  Calls'
  <1> DEFINE n == Len(frames)
  <1>1. /\ n \in Nat \ {0} /\ frames' \in Seq(Frames) /\ Len(frames') = n - 1
        /\ \A i \in 1 .. n - 1 : frames'[i] = frames[i]
    BY OuterIs DEF Calls
  <1>2. Nested /\ Accounted /\ DOMAIN heap \subseteq Ptrs \cup {Null}
    BY DEF Calls
  <1>3. \A i \in 1 .. n - 1 : /\ frames[i].stage = "callback"
                             /\ InMemory(frames[i]) /\ Progressed(frames[i])
    BY <1>1 DEF Calls, Nested
  <1>4. Top = frames[n]
    BY DEF Top
  <1>5. \A q \in DOMAIN heap' : q \in DOMAIN heap /\ heap'[q] = heap[q]
    BY DEF Without
  <1>6. \A q \in DOMAIN heap : q \notin DOMAIN heap' => Top.stage # "written" /\ q = Top.block
    BY DEF Without
  <1>7. \A i \in 1 .. n - 1 : frames[i].input \in DOMAIN heap' /\ frames[i].block \in DOMAIN heap'
    <2> TAKE i \in 1 .. n - 1
    <2>1. frames[i].input \in DOMAIN heap /\ frames[i].block \in DOMAIN heap
      BY <1>3 DEF InMemory
    <2>2. i \in 1 .. n /\ n \in 1 .. n /\ i # n
      BY <1>1
    <2>3. Top.stage # "written" =>
             Top.block # frames[i].input /\ Top.block # frames[i].block
      BY <1>2, <1>3, <1>4, <2>2 DEF Nested
    <2> QED BY <1>6, <2>1, <2>3
  <1>8. Accounted'
    <2> SUFFICES ASSUME NEW q \in Ptrs \cap DOMAIN heap', heap'[q] \notin Configs \cup Requests
                 PROVE  \E i \in 1 .. n - 1 : frames'[i].stage # "written" /\ frames'[i].block = q
      BY <1>1 DEF Accounted
    <2>1. PICK i \in 1 .. n : frames[i].stage # "written" /\ frames[i].block = q
      BY <1>2, <1>5 DEF Accounted
    <2>2. i # n
      BY PtrAssumption, <1>4, <2>1 DEF Without
    <2> QED BY <1>1, <2>1, <2>2
  <1> HIDE DEF n
  <1>9. \A i \in 1 .. n - 1 : InMemory(frames[i])' /\ Progressed(frames[i])'
    BY <1>1, <1>3, <1>5, <1>7 DEF InMemory, Progressed
  <1>10. Nested'
    <2>1. \A i \in 1 .. Len(frames') - 1 : frames'[i].stage = "callback"
      BY <1>1, <1>3
    <2>2. ASSUME NEW i \in 1 .. n - 1, NEW j \in 1 .. n - 1
          PROVE  /\ frames'[i].block # frames'[j].input
                 /\ i # j => frames'[i].block # frames'[j].block
      <3>1. i \in 1 .. n /\ j \in 1 .. n
        BY <1>1
      <3> QED BY <1>1, <1>2, <1>3, <3>1 DEF Nested, n
    <2> QED BY <1>1, <2>1, <2>2 DEF Nested
  <1>11. DOMAIN heap' \subseteq Ptrs \cup {Null}
    BY <1>2, <1>5
  <1> QED BY <1>1, <1>8, <1>9, <1>10, <1>11 DEF Calls

\* Where only the table or the flag changes, no answer waits to be read.
LEMMA Stayed ==
  ASSUME Calls, heap' = heap, frames' = frames, policies' = policies \/ HostRuns
  PROVE  Calls'
  <1>1. \A i \in 1 .. Len(frames) : InMemory(frames[i])'
    BY DEF Calls, InMemory
  <1>2. \A i \in 1 .. Len(frames) : Progressed(frames[i])'
    <2>1. CASE policies' = policies
      BY <2>1 DEF Calls, Progressed
    <2>2. CASE HostRuns
      BY <2>2, HostRunsWhenAllWait DEF Calls, Progressed
    <2> QED BY <2>1, <2>2
  <1> QED BY <1>1, <1>2 DEF Calls, Nested, Accounted

\* A call the host begins.
LEMMA Written ==
  ASSUME Calls, NEW kind \in {"new", "ask"}, NEW h \in Nat,
         NEW content \in IF kind = "new" THEN Configs ELSE Requests,
         Write(Frame(kind, h), content)
  PROVE  Calls'
  <1>1. PICK p \in FreePtrs :
           /\ heap' = With(heap, p, content)
           /\ frames' = Append(frames, [Frame(kind, h) EXCEPT !.input = p])
    BY DEF Write
  <1> DEFINE f == [Frame(kind, h) EXCEPT !.input = p]
  <1>2. f \in Frames /\ f.stage = "written" /\ f.input = p /\ f.kind = kind
    BY DEF Frame, Frames, FreePtrs
  <1>3. HostRuns /\ frames' = Append(frames, f)
    BY <1>1 DEF Write
  <1> HIDE DEF f
  <1>4. content \in IF f.kind = "new" THEN Configs ELSE Requests
    BY <1>2
  <1> QED BY <1>1, <1>2, <1>3, <1>4, Pushed

\* Each step keeps what is known of the calls in progress.
LEMMA CallsAreInductive == IInv /\ [Next]_vars => Calls'
  <1> SUFFICES ASSUME IInv, [Next]_vars PROVE Calls'
    OBVIOUS
  <1> USE DEF IInv
  <1>1. ASSUME NEW config \in Configs, WriteConfig(config) PROVE Calls'
    BY <1>1, Written DEF WriteConfig, NoHandle
  <1>2. ASSUME NEW request \in Requests, NEW h \in Given \cup {NoHandle},
               WriteRequest(h, request)
        PROVE  Calls'
    <2>1. \A i \in DOMAIN made : made[i].handle \in Nat
      <3>1. \A i \in DOMAIN made : made[i] \in Histories
        BY LenProperties, ElementOfSeq DEF Table
      <3> QED BY <3>1 DEF Histories
    <2>2. h \in Nat
      BY <2>1 DEF Given, NoHandle
    <2> QED BY <1>2, <2>2, Written DEF WriteRequest
  <1>3. CASE PolicyNewFails
    BY <1>3, Popped DEF PolicyNewFails, At
  <1>4. CASE PolicyNewEmits
    <2>1. frames # <<>> /\ Top.stage = "written" /\ Top.kind = "new" /\ policies' = policies
      BY <1>4 DEF PolicyNewEmits, At
    <2>2. PICK p \in FreePtrs :
             /\ heap' = With(heap, p, [event |-> heap[Top.input]])
             /\ frames' = SetTop([Top EXCEPT !.stage = "callback", !.sink = TRUE, !.block = p])
      BY <1>4 DEF PolicyNewEmits
    <2> DEFINE f == [Top EXCEPT !.stage = "callback", !.sink = TRUE, !.block = p]
    <2>3. /\ f \in Frames /\ f.kind = Top.kind /\ f.input = Top.input /\ f.block = p
          /\ f.stage = "callback" /\ f.sink = TRUE /\ f.block \in Ptrs
      BY <2>1, TopIsCall DEF Frames, FreePtrs
    <2>4. frames' = SetTop(f)
      BY <2>2
    <2> HIDE DEF f
    <2> QED BY <2>1, <2>2, <2>3, <2>4, Advanced
  <1>5. CASE PolicyNewSilent
    BY <1>5, Popped DEF PolicyNewSilent, At, Store
  <1>6. CASE CallbackReturns
    BY <1>6, Popped DEF CallbackReturns, Store
  <1>7. CASE GuestAnswers
    <2>1. frames # <<>> /\ Top.stage = "written" /\ Top.kind = "ask" /\ policies' = policies
      BY <1>7 DEF GuestAnswers, At
    <2> DEFINE c == [allowed |-> Answer(policies, Top.handle, heap[Top.input])]
    <2>2. PICK p \in ResultPtrs :
             /\ heap' = With(heap, p, c)
             /\ frames' = SetTop([Top EXCEPT !.stage = "answered", !.block = p])
      BY <1>7 DEF GuestAnswers
    <2> DEFINE f == [Top EXCEPT !.stage = "answered", !.block = p]
    <2>3. /\ f \in Frames /\ f.kind = Top.kind /\ f.input = Top.input /\ f.block = p
          /\ f.stage = "answered" /\ f.handle = Top.handle /\ p \in FreePtrs \cup {Null}
      BY <2>1, TopIsCall DEF Frames, FreePtrs, ResultPtrs
    <2>4. frames' = SetTop(f)
      BY <2>2
    <2>5. c.allowed = Answer(policies, Top.handle, heap[Top.input])
      OBVIOUS
    <2> HIDE DEF f, c
    <2>6. c.allowed = Answer(policies, f.handle, heap[f.input])
      BY <2>3, <2>5
    <2> QED BY <2>1, <2>2, <2>3, <2>4, <2>6, Advanced
  <1>8. CASE ReadResult
    BY <1>8, Popped DEF ReadResult, At
  <1>9. ASSUME NEW h \in Given, PolicyFree(h) PROVE Calls'
    BY <1>9, Stayed DEF PolicyFree
  <1>10. ASSUME NEW enabled \in BOOLEAN, SetAuditCallback(enabled) PROVE Calls'
    BY <1>10, Stayed DEF SetAuditCallback
  <1>11. CASE WriteFails
    BY <1>11, Stayed DEF WriteFails
  <1>12. CASE GuestTraps
    BY <1>12, Popped DEF GuestTraps, At
  <1>13. CASE UNCHANGED vars
    BY <1>13, Stayed DEF vars
  <1> QED
    BY <1>1, <1>2, <1>3, <1>4, <1>5, <1>6, <1>7, <1>8, <1>9, <1>10, <1>11, <1>12, <1>13
       DEF Next

\* The invariant holds in every state.
LEMMA Invariant == Spec => []IInv
  <1>1. Init => IInv
    <2> SUFFICES ASSUME Init PROVE IInv
      OBVIOUS
    <2>1. policies = <<>> /\ made = <<>> /\ frames = <<>> /\ heap = <<>>
      BY DEF Init, GuestInit
    <2>2. Table
      BY <2>1, EmptySeq DEF Table
    <2>3. Calls
      BY <2>1, EmptySeq DEF Calls, Nested, Accounted
    <2> QED BY <2>2, <2>3 DEF IInv
  <1>2. IInv /\ [Next]_vars => IInv'
    BY TableIsInductive, CallsAreInductive DEF IInv
  <1> QED BY <1>1, <1>2, PTL DEF Spec

-----------------------------------------------------------------------------
\* A handle stands for one configuration until it is freed and for nothing after
\* that, however calls are nested in audit callbacks (lib.rs:44-64).
THEOREM HandlesKeepTheirPolicy == Spec => []HandleKeepsItsPolicy
  <1>1. IInv => HandleKeepsItsPolicy
    <2> SUFFICES ASSUME IInv PROVE HandleKeepsItsPolicy
      OBVIOUS
    <2>1. DOMAIN made = 1 .. Len(made) /\ DOMAIN policies = 1 .. Len(made)
      BY LenProperties DEF IInv, Table
    <2>2. \A i \in DOMAIN made : Entry(i)
      BY <2>1 DEF IInv, Table
    <2> QED BY <2>1, <2>2 DEF HandleKeepsItsPolicy, Entry
  <1> QED BY <1>1, Invariant, PTL

\* No block of the guest's is lost or shared, so between calls only inputs are
\* left (lib.rs:114-132, 383-410, wasm.ts:63-70).
THEOREM BlocksAreFreed == Spec => []GuestBlocksAreFreed
  <1>1. IInv => GuestBlocksAreFreed
    <2> SUFFICES ASSUME IInv PROVE GuestBlocksAreFreed
      OBVIOUS
    <2>1. DOMAIN frames = 1 .. Len(frames)
      BY LenProperties DEF IInv, Calls
    <2> QED BY <2>1 DEF GuestBlocksAreFreed, IInv, Calls, InMemory, Nested, Accounted
  <1> QED BY <1>1, Invariant, PTL
-----------------------------------------------------------------------------
\* A verdict is read while the table is as it was when the guest answered, and a
\* later build or free changes neither handles nor configurations.
AnswerIsEarned ==
  answer.allowed /\ answer.request.ask # "domain" =>
    /\ ~ answer.freed
    /\ \E i \in 1 .. Len(made) : /\ made[i].handle = answer.handle
                                /\ Passes(made[i].config, answer.request)

\* No step takes a handle or its configuration back.
LEMMA MadeGrows ==
  ASSUME Table, [Next]_vars
  PROVE  /\ Len(made) \in Nat /\ Len(made') \in Nat /\ Len(made) <= Len(made')
         /\ \A i \in 1 .. Len(made) : /\ made'[i].handle = made[i].handle
                                    /\ made'[i].config = made[i].config
                                    /\ made'[i].announced = made[i].announced
  <1>1. made \in Seq(Histories) /\ Len(made) \in Nat /\ DOMAIN made = 1 .. Len(made)
    BY LenProperties DEF Table
  <1>2. ASSUME NEW config, NEW sink, Store(config, sink)
        PROVE  /\ Len(made') = Len(made) + 1
               /\ \A i \in 1 .. Len(made) : made'[i] = made[i]
    BY <1>1, <1>2, StoredMade
  <1>3. CASE PolicyNewSilent \/ CallbackReturns
    <2>1. /\ Len(made') = Len(made) + 1
          /\ \A i \in 1 .. Len(made) : made'[i] = made[i]
      BY <1>2, <1>3 DEF PolicyNewSilent, CallbackReturns
    <2> QED BY <1>1, <2>1
  <1>4. ASSUME NEW h \in Given, PolicyFree(h)
        PROVE  /\ DOMAIN made' = DOMAIN made /\ Len(made') = Len(made)
               /\ \A i \in 1 .. Len(made) : /\ made'[i].handle = made[i].handle
                                          /\ made'[i].config = made[i].config
                                          /\ made'[i].announced = made[i].announced
    <2>1. made' = [i \in 1 .. Len(made) |->
                     IF made[i].handle = h THEN [made[i] EXCEPT !.freed = TRUE] ELSE made[i]]
      BY <1>1, <1>4 DEF PolicyFree
    <2>2. Len(made') = Len(made) /\ DOMAIN made' = DOMAIN made
      BY <1>1, <2>1
    <2>3. \A i \in 1 .. Len(made) : made[i] \in Histories
      BY <1>1, ElementOfSeq
    <2> QED BY <2>1, <2>2, <2>3 DEF Histories
  <1>5. CASE UNCHANGED made
    BY <1>1, <1>5
  <1>6. CASE \E h \in Given : PolicyFree(h)
    BY <1>1, <1>4, <1>6
  <1> QED
    BY <1>3, <1>5, <1>6
       DEF Next, WriteConfig, WriteRequest, Write, PolicyNewFails, PolicyNewEmits,
           GuestAnswers, GuestTraps, WriteFails, ReadResult, SetAuditCallback, vars

\* Each step keeps the last verdict earned.
LEMMA AnswerStaysEarned == IInv /\ AnswerIsEarned /\ [Next]_vars => AnswerIsEarned'
  <1> SUFFICES ASSUME IInv, AnswerIsEarned, [Next]_vars PROVE AnswerIsEarned'
    OBVIOUS
  <1> USE DEF IInv
  <1>1. CASE ReadResult
    <2>1. frames # <<>> /\ Top.stage = "answered" /\ answer' = Outcome(heap[Top.block].allowed) /\ made' = made
      BY <1>1 DEF ReadResult, At
    <2> DEFINE h == Top.handle
               request == heap[Top.input]
    <2>2. heap[Top.block].allowed = Answer(policies, h, request)
      BY <2>1, TopIsCall DEF Progressed
    <2>3. /\ answer'.handle = h /\ answer'.request = request
          /\ answer'.allowed = Answer(policies, h, request)
          /\ answer'.freed = Freed(h)
      BY <2>1, <2>2 DEF Outcome
    <2> HIDE DEF h, request
    <2> SUFFICES ASSUME Answer(policies, h, request), request.ask # "domain"
                 PROVE  /\ ~ Freed(h)
                        /\ \E i \in 1 .. Len(made) : /\ made[i].handle = h
                                                    /\ Passes(made[i].config, request)
      BY <2>1, <2>3 DEF AnswerIsEarned
    <2>4. IsLive(policies, h) /\ Passes(policies[h].config, request)
      BY DEF Answer
    <2>5. /\ DOMAIN policies = 1 .. Len(made) /\ DOMAIN made = 1 .. Len(made)
          /\ \A i \in 1 .. Len(made) : Entry(i)
      BY LenProperties DEF Table
    <2>6. h \in 1 .. Len(made) /\ policies[h].live
      BY <2>4, <2>5 DEF IsLive
    <2>7. made[h].handle = h /\ ~ made[h].freed /\ policies[h].config = made[h].config
      BY <2>5, <2>6 DEF Entry
    <2>8. ~ Freed(h)
      BY <2>5, <2>7 DEF Freed, Entry
    <2> QED BY <2>4, <2>6, <2>7, <2>8
  <1>2. CASE answer' = answer
    BY <1>2, MadeGrows DEF AnswerIsEarned
  <1>3. CASE WriteFails \/ GuestTraps
    <2>1. answer'.allowed = FALSE
      BY <1>3 DEF WriteFails, NoAnswer, GuestTraps, Outcome
    <2> QED BY <2>1 DEF AnswerIsEarned
  <1> QED
    BY <1>1, <1>2, <1>3
       DEF Next, WriteConfig, WriteRequest, Write, PolicyNewFails, PolicyNewEmits,
           PolicyNewSilent, CallbackReturns, Store,
           GuestAnswers, PolicyFree, SetAuditCallback, vars

\* An "allowed" the host reads comes from the configuration its handle was given
\* out for, and never from a handle that was freed (lib.rs:56-76, 187-308).
THEOREM AnswersComeFromTheirPolicy == Spec => []AllowedByItsPolicy
  <1>1. Init => AnswerIsEarned
    BY DEF Init, NoAnswer, AnswerIsEarned
  <1>2. IInv /\ AnswerIsEarned => AllowedByItsPolicy
    BY LenProperties DEF AnswerIsEarned, AllowedByItsPolicy, IInv, Table
  <1> QED BY <1>1, <1>2, AnswerStaysEarned, Invariant, PTL DEF Spec
-----------------------------------------------------------------------------
Announced == {i \in 1 .. Len(made) : made[i].announced}
Waiting   == {i \in 1 .. Len(frames) : frames[i].stage = "callback"}

\* Each event is of a policy that was announced, or of a build that waits.
Counted ==
  /\ events \in Seq(Configs)
  /\ Len(events) = Cardinality(Announced) + Cardinality(Waiting)

\* The sets counted are finite.
LEMMA CountsAreFinite ==
  ASSUME IInv
  PROVE  /\ IsFiniteSet(Announced) /\ Cardinality(Announced) \in Nat
         /\ IsFiniteSet(Waiting) /\ Cardinality(Waiting) \in Nat
         /\ Len(made) \in Nat /\ Len(frames) \in Nat
  <1>1. Len(made) \in Nat /\ Len(frames) \in Nat
    BY LenProperties DEF IInv, Table, Calls
  <1>2. IsFiniteSet(1 .. Len(made)) /\ IsFiniteSet(1 .. Len(frames))
    BY <1>1, FS_Interval
  <1>3. Announced \in SUBSET (1 .. Len(made)) /\ Waiting \in SUBSET (1 .. Len(frames))
    BY DEF Announced, Waiting
  <1> QED BY <1>1, <1>2, <1>3, FS_Subset, FS_CardinalityType

\* A call that ends no longer waits, the others go on waiting.
LEMMA EndedIsNotWaiting ==
  ASSUME IInv, frames # <<>>, frames' = Outer
  PROVE  /\ Waiting' = Waiting \ {Len(frames)}
         /\ Len(frames) \in Waiting <=> Top.stage = "callback"
  <1>1. /\ Len(frames) \in Nat \ {0} /\ Len(frames') = Len(frames) - 1
        /\ \A i \in 1 .. Len(frames) - 1 : frames'[i] = frames[i]
        /\ Top = frames[Len(frames)]
    BY OuterIs DEF IInv, Calls, Top
  <1> QED BY <1>1 DEF Waiting

\* A policy that is stored is counted if it was announced.
LEMMA StoredIsCounted ==
  ASSUME IInv, NEW config, NEW sink, Store(config, sink)
  PROVE  Announced' = IF Top.stage = "callback" THEN Announced \cup {Len(made) + 1}
                                                ELSE Announced
  <1>1. /\ Len(made') = Len(made) + 1 /\ Len(made) \in Nat
        /\ \A i \in 1 .. Len(made) : made'[i] = made[i]
        /\ made'[Len(made) + 1].announced = (Top.stage = "callback")
    BY StoredMade DEF IInv, Table
  <1> DEFINE n == Len(made)
             a == Top.stage = "callback"
             new == made'
  <1>2. Announced' = {i \in 1 .. n + 1 : new[i].announced}
    BY <1>1 DEF Announced
  <1>3. Announced = {i \in 1 .. n : new[i].announced}
    BY <1>1 DEF Announced
  <1>4. 1 .. n + 1 = (1 .. n) \cup {n + 1} /\ new[n + 1].announced = a
    BY <1>1
  <1> HIDE DEF n, a, new
  <1>5. CASE a
    BY <1>2, <1>3, <1>4, <1>5 DEF n, a
  <1>6. CASE ~ a
    BY <1>2, <1>3, <1>4, <1>6 DEF a
  <1> QED BY <1>5, <1>6

\* Each step keeps the count of events.
LEMMA CountIsInductive == IInv /\ Counted /\ [Next]_vars => Counted'
  <1> SUFFICES ASSUME IInv, Counted, [Next]_vars PROVE Counted'
    OBVIOUS
  <1> DEFINE n == Len(frames)
  <1>1. /\ IsFiniteSet(Announced) /\ Cardinality(Announced) \in Nat
        /\ IsFiniteSet(Waiting) /\ Cardinality(Waiting) \in Nat
        /\ Len(made) \in Nat /\ n \in Nat
    BY CountsAreFinite
  <1>2. ASSUME NEW f \in Frames, f.stage = "written", frames' = Append(frames, f),
               made' = made, events' = events
        PROVE  Counted'
    <2>1. /\ Len(frames') = n + 1 /\ frames'[n + 1] = f
          /\ \A i \in 1 .. n : frames'[i] = frames[i]
      BY <1>2, AppendProperties DEF IInv, Calls
    <2>2. Waiting' = Waiting /\ Announced' = Announced
      BY <1>1, <1>2, <2>1 DEF Waiting, Announced
    <2> QED BY <1>2, <2>2 DEF Counted
  <1>3. ASSUME frames # <<>>, Top.stage # "callback", frames' = Outer,
               Announced' = Announced, events' = events
        PROVE  Counted'
    <2>1. Waiting' = Waiting
      BY <1>3, EndedIsNotWaiting
    <2> QED BY <1>3, <2>1 DEF Counted
  <1>4. ASSUME NEW config \in Configs \cup Requests, NEW handle \in Nat,
               NEW kind \in {"new", "ask"}, Write(Frame(kind, handle), config)
        PROVE  Counted'
    <2>1. PICK p \in FreePtrs : frames' = Append(frames, [Frame(kind, handle) EXCEPT !.input = p])
      BY <1>4 DEF Write
    <2> DEFINE f == [Frame(kind, handle) EXCEPT !.input = p]
    <2>2. f \in Frames /\ f.stage = "written"
      BY DEF Frame, Frames, FreePtrs
    <2>3. frames' = Append(frames, f) /\ made' = made /\ events' = events
      BY <1>4, <2>1 DEF Write
    <2> HIDE DEF f
    <2> QED BY <1>2, <2>2, <2>3
  <1>5. ASSUME NEW config \in Configs, WriteConfig(config) PROVE Counted'
    BY <1>4, <1>5 DEF WriteConfig, NoHandle
  <1>6. ASSUME NEW request \in Requests, NEW h \in Given \cup {NoHandle},
               WriteRequest(h, request)
        PROVE  Counted'
    <2>1. \A i \in DOMAIN made : made[i].handle \in Nat
      <3>1. \A i \in DOMAIN made : made[i] \in Histories
        BY LenProperties, ElementOfSeq DEF IInv, Table
      <3> QED BY <3>1 DEF Histories
    <2>2. h \in Nat
      BY <2>1 DEF Given, NoHandle
    <2> QED BY <1>4, <1>6, <2>2 DEF WriteRequest
  <1>7. CASE PolicyNewFails
    BY <1>3, <1>7 DEF PolicyNewFails, At, Announced
  <1>8. CASE ReadResult
    BY <1>3, <1>8 DEF ReadResult, At, Announced
  <1>9. CASE PolicyNewSilent
    <2>1. frames # <<>> /\ Top.stage = "written"
      BY <1>9 DEF PolicyNewSilent, At
    <2>2. Announced' = Announced /\ frames' = Outer /\ events' = events
      BY <1>9, <2>1, StoredIsCounted DEF PolicyNewSilent, Store
    <2> QED BY <1>3, <2>1, <2>2
  <1>10. CASE CallbackReturns
    <2>1. frames # <<>> /\ Top.stage = "callback" /\ events' = events /\ frames' = Outer
      BY <1>10 DEF CallbackReturns, Store
    <2>2. Announced' = Announced \cup {Len(made) + 1} /\ Len(made) + 1 \notin Announced
      BY <1>1, <1>10, <2>1, StoredIsCounted DEF CallbackReturns, Announced
    <2>3. Waiting' = Waiting \ {n} /\ n \in Waiting
      BY <2>1, EndedIsNotWaiting
    <2>4. Cardinality(Announced') = Cardinality(Announced) + 1
      BY <1>1, <2>2, FS_AddElement
    <2>5. Cardinality(Waiting') = Cardinality(Waiting) - 1
      BY <1>1, <2>3, FS_RemoveElement
    <2> QED BY <1>1, <2>1, <2>4, <2>5 DEF Counted
  <1>11. CASE PolicyNewEmits
    <2>1. frames # <<>> /\ Top.stage = "written" /\ Top.kind = "new"
      BY <1>11 DEF PolicyNewEmits, At
    <2>2. heap[Top.input] \in Configs /\ Top \in Frames /\ n \in Nat \ {0} /\ Top = frames[n]
      BY <2>1, TopIsCall DEF IInv, InMemory
    <2>3. PICK p \in FreePtrs :
             frames' = SetTop([Top EXCEPT !.stage = "callback", !.sink = TRUE, !.block = p])
      BY <1>11 DEF PolicyNewEmits
    <2> DEFINE f == [Top EXCEPT !.stage = "callback", !.sink = TRUE, !.block = p]
    <2>4. f \in Frames /\ f.stage = "callback" /\ frames' = SetTop(f)
      BY <2>2, <2>3 DEF Frames, FreePtrs
    <2> HIDE DEF f
    <2>5. /\ Len(frames') = n /\ frames'[n] = f
          /\ \A i \in 1 .. n - 1 : frames'[i] = frames[i]
      BY <2>1, <2>4, SetTopIs DEF IInv, Calls
    <2>6. Waiting' = Waiting \cup {n} /\ n \notin Waiting
      BY <2>1, <2>2, <2>4, <2>5 DEF Waiting
    <2>7. Cardinality(Waiting') = Cardinality(Waiting) + 1
      BY <1>1, <2>6, FS_AddElement
    <2>8. events' \in Seq(Configs) /\ Len(events') = Len(events) + 1 /\ Announced' = Announced
      BY <1>11, <2>2, AppendProperties DEF PolicyNewEmits, Counted, Announced
    <2> QED BY <1>1, <2>7, <2>8 DEF Counted
  <1>12. CASE GuestAnswers
    <2>1. frames # <<>> /\ Top.stage = "written" /\ made' = made /\ events' = events
      BY <1>12 DEF GuestAnswers, At
    <2>2. Top \in Frames /\ n \in Nat \ {0} /\ Top = frames[n]
      BY <2>1, TopIsCall DEF IInv
    <2>3. PICK p \in ResultPtrs :
             frames' = SetTop([Top EXCEPT !.stage = "answered", !.block = p])
      BY <1>12 DEF GuestAnswers
    <2> DEFINE f == [Top EXCEPT !.stage = "answered", !.block = p]
    <2>4. f \in Frames /\ f.stage = "answered" /\ frames' = SetTop(f)
      BY <2>2, <2>3 DEF Frames, FreePtrs, ResultPtrs
    <2> HIDE DEF f
    <2>5. /\ Len(frames') = n /\ frames'[n] = f
          /\ \A i \in 1 .. n - 1 : frames'[i] = frames[i]
      BY <2>1, <2>4, SetTopIs DEF IInv, Calls
    <2>6. Waiting' = Waiting /\ Announced' = Announced
      BY <2>1, <2>2, <2>4, <2>5 DEF Waiting, Announced
    <2> QED BY <2>1, <2>6 DEF Counted
  <1>13. ASSUME NEW h \in Given, PolicyFree(h) PROVE Counted'
    <2>1. /\ DOMAIN made = 1 .. Len(made)
          /\ \A i \in 1 .. Len(made) : made[i] \in Histories
      BY LenProperties, ElementOfSeq DEF IInv, Table
    <2>2. made' = [i \in 1 .. Len(made) |->
                     IF made[i].handle = h THEN [made[i] EXCEPT !.freed = TRUE] ELSE made[i]]
      BY <1>13, <2>1 DEF PolicyFree
    <2>3. Len(made') = Len(made)
      BY <1>1, <2>2
    <2>4. \A i \in 1 .. Len(made) : made'[i].announced = made[i].announced
      BY <2>1, <2>2 DEF Histories
    <2>5. Announced' = Announced
      BY <2>3, <2>4 DEF Announced
    <2> QED BY <1>13, <2>5 DEF PolicyFree, Waiting, Counted
  <1>14. CASE UNCHANGED <<frames, made, events>>
    BY <1>14 DEF Counted, Announced, Waiting
  <1>15. CASE GuestTraps
    BY <1>3, <1>15 DEF GuestTraps, At, Announced
  <1> QED
    BY <1>5, <1>6, <1>7, <1>8, <1>9, <1>10, <1>11, <1>12, <1>13, <1>14, <1>15
       DEF Next, WriteFails, SetAuditCallback, vars

\* A policy has a sink exactly if its creation was announced, and no event is
\* lost or doubled, whatever the callback does (lib.rs:366-410).
THEOREM EventsArePaired == Spec => []EventsMatchPolicies
  <1>1. Init => Counted
    <2> SUFFICES ASSUME Init PROVE Counted
      OBVIOUS
    <2>1. made = <<>> /\ frames = <<>> /\ events = <<>>
      BY DEF Init
    <2>2. Announced = {} /\ Waiting = {} /\ events \in Seq(Configs) /\ Len(events) = 0
      BY <2>1, EmptySeq DEF Announced, Waiting
    <2> QED BY <2>2, FS_EmptySet DEF Counted
  <1>2. IInv /\ Counted => EventsMatchPolicies
    <2> SUFFICES ASSUME IInv, Counted PROVE EventsMatchPolicies
      OBVIOUS
    <2>1. DOMAIN made = 1 .. Len(made) /\ DOMAIN frames = 1 .. Len(frames)
      BY LenProperties DEF IInv, Table, Calls
    <2>2. \A i \in DOMAIN made : Entry(i)
      BY <2>1 DEF IInv, Table
    <2> QED BY <2>1, <2>2 DEF EventsMatchPolicies, Entry, Counted, Announced, Waiting
  <1> QED BY <1>1, <1>2, CountIsInductive, Invariant, PTL DEF Spec
=============================================================================

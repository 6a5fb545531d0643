----------------------- MODULE DataflowOrder_proofs -----------------------
(***************************************************************************)
(* Proofs about DataflowOrder, for every graph, probe and set of typed     *)
(* outputs, while the serial numbers do not leave the range of an s8.      *)
(***************************************************************************)
EXTENDS DataflowOrder, FiniteSetTheorems, SequenceTheorems, TLAPS

\* The serial number is narrowed to s8: what follows is about graphs in which
\* it never wraps.
FewModules == Cardinality(Modules) <= HalfRange

Queued == Modules \ pending
Frames == [mod : Modules, todo : SUBSET Modules]

Typed ==
    /\ connections \subseteq Modules \X Modules
    /\ mDepth \in [Modules -> Int]
    /\ pending \subseteq Modules
    /\ DOMAIN serial = Queued
    /\ reg \in [Modules -> Registers \cup {None}]
    /\ DOMAIN allocated \subseteq Registers
    /\ stack \in Seq(Frames)
    /\ \A i \in 1..Len(stack) : stack[i].mod \in Queued
    /\ ready \in Seq(Modules)

\* A module once ready stays ready: no module becomes pending again.
ReadyStays == \A i \in 1..Len(ready) : ~HasPendingInputs(ready[i])

Numbered ==
    /\ next = Cardinality(Queued)
    /\ \A m \in Queued : serial[m] \in 0..(next - 1)
    /\ \A m, n \in Queued : serial[m] = serial[n] => m = n
    /\ \A m \in Queued : \A p \in Inputs(m) \ {m} : p \in Queued /\ serial[p] < serial[m]

\* Nobody needs p's register any more.
Expired(p) == Dependants(p) \subseteq Queued /\ ~(p = probe /\ Dependants(p) # {})

\* A register somebody needs is allocated to the module that wrote it, for all
\* the modules that have not read it.
Kept(p) ==
    reg[p] # None /\ ~Expired(p) =>
        /\ reg[p] \in DOMAIN allocated
        /\ allocated[reg[p]].mpOwner = p
        /\ Dependants(p) \cap pending \subseteq allocated[reg[p]].mChildren
        /\ p = probe => allocated[reg[p]].mChildren = Dependants(p)

\* A register given to q after p had it had expired when q was queued.
GivenAway(p, q) ==
    reg[p] # None /\ reg[p] = reg[q] /\ serial[p] < serial[q] =>
        /\ Expired(p)
        /\ \A d \in Dependants(p) : serial[d] < serial[q]

Shared ==
    /\ \A m \in pending : reg[m] = None
    /\ \A p \in Queued : Kept(p)
    /\ \A p, q \in Queued : GivenAway(p, q)

Inv == Typed /\ ReadyStays /\ Numbered /\ Shared

----------------------------------------------------------------------------
(* Facts about the operators of the model.                                 *)

\* In half the range, narrowing to s8 changes nothing.
LEMMA NarrowSmall ==
    ASSUME NEW n \in 0..(HalfRange - 1)  PROVE  Narrow(n) = n
<1>1. HalfRange \in Nat \ {0}
  BY HalfRangeAssumption
<1>2. (n + HalfRange) % (2 * HalfRange) = n + HalfRange
  BY <1>1, SMTT(30)
<1> QED
  BY <1>1, <1>2 DEF Narrow

\* What the sort of the ready modules returns is a list of them.
LEMMA Listed ==
    ASSUME NEW S \in SUBSET Modules, NEW s \in SetToSeqs(S)
    PROVE  s \in Seq(Modules) /\ \A i \in 1..Len(s) : s[i] \in S
<1>1. Cardinality(S) \in Nat
  BY ModulesAssumption, FS_Subset, FS_CardinalityType
<1> QED
  BY <1>1 DEF SetToSeqs

\* The call on top of the stack, and what is below it.
LEMMA Top ==
    ASSUME NEW S, NEW s \in Seq(S), s # <<>>
    PROVE  /\ Len(s) \in Nat \ {0}
           /\ Last(s) = s[Len(s)]
           /\ Last(s) \in S
           /\ Front(s) \in Seq(S)
           /\ Len(Front(s)) = Len(s) - 1
           /\ \A i \in 1..Len(Front(s)) : Front(s)[i] = s[i]
<1>1. Len(s) \in Nat /\ Len(s) # 0 /\ s \in [1..Len(s) -> S]
  OBVIOUS
<1>2. SubSeq(s, 1, Len(s) - 1) \in Seq(S) /\ Len(SubSeq(s, 1, Len(s) - 1)) = Len(s) - 1
  BY <1>1
<1>3. \A i \in 1..(Len(s) - 1) : SubSeq(s, 1, Len(s) - 1)[i] = s[i]
  BY <1>1
<1> QED
  BY <1>1, <1>2, <1>3 DEF Last, Front

\* Queueing a module that is pending gives it the next number.
LEMMA CountQueued ==
    ASSUME NEW P \in SUBSET Modules, NEW m \in P
    PROVE  /\ Cardinality(Modules \ P) \in Nat
           /\ Cardinality(Modules \ P) < Cardinality(Modules)
           /\ Modules \ (P \ {m}) = (Modules \ P) \cup {m}
           /\ Cardinality((Modules \ P) \cup {m}) = Cardinality(Modules \ P) + 1
<1>1. IsFiniteSet(Modules)
  BY ModulesAssumption
<1>2. IsFiniteSet(Modules \ P) /\ Cardinality(Modules \ P) \in Nat
  BY <1>1, FS_Subset, FS_CardinalityType
<1>3. Modules \ P \subseteq Modules /\ m \in Modules \ (Modules \ P)
  OBVIOUS
<1>4. Cardinality(Modules \ P) <= Cardinality(Modules) /\ Modules \ P # Modules
  BY <1>1, <1>3, FS_Subset
<1>5. Cardinality(Modules \ P) # Cardinality(Modules)
  BY <1>1, <1>3, <1>4, FS_Subset
<1>6. Cardinality((Modules \ P) \cup {m}) = Cardinality(Modules \ P) + 1
  BY <1>2, <1>3, FS_AddElement
<1>7. Cardinality(Modules) \in Nat
  BY <1>1, FS_CardinalityType
<1> QED
  BY <1>2, <1>3, <1>4, <1>5, <1>6, <1>7

\* Pruning by a module that has been computed takes no register from a module
\* that still needs it.
LEMMA PruneKeeps ==
    ASSUME Typed, Shared, NEW m \in Queued
    PROVE  /\ DOMAIN Pruned(m) \subseteq DOMAIN allocated
           /\ \A p \in Queued : reg[p] # None /\ ~Expired(p) =>
                /\ reg[p] \in DOMAIN Pruned(m)
                /\ Pruned(m)[reg[p]].mpOwner = p
                /\ Dependants(p) \cap pending \subseteq Pruned(m)[reg[p]].mChildren
                /\ p = probe => Pruned(m)[reg[p]].mChildren = Dependants(p)
<1> DEFINE Left(r) == IF allocated[r].mpOwner = probe THEN allocated[r].mChildren
                      ELSE allocated[r].mChildren \ {m}
<1>1. DOMAIN Pruned(m) = {r \in DOMAIN allocated : Left(r) # {}}
  BY DEF Pruned
<1>2. \A r \in DOMAIN Pruned(m) :
        Pruned(m)[r] = [mpOwner |-> allocated[r].mpOwner, mChildren |-> Left(r)]
  BY DEF Pruned
<1>3. SUFFICES ASSUME NEW p \in Queued, reg[p] # None, ~Expired(p)
               PROVE  /\ reg[p] \in DOMAIN Pruned(m)
                      /\ Pruned(m)[reg[p]].mpOwner = p
                      /\ Dependants(p) \cap pending \subseteq Pruned(m)[reg[p]].mChildren
                      /\ p = probe => Pruned(m)[reg[p]].mChildren = Dependants(p)
  BY <1>1
<1>4. /\ reg[p] \in DOMAIN allocated
      /\ allocated[reg[p]].mpOwner = p
      /\ Dependants(p) \cap pending \subseteq allocated[reg[p]].mChildren
      /\ p = probe => allocated[reg[p]].mChildren = Dependants(p)
  BY <1>3 DEF Shared, Kept
<1>5. Dependants(p) \cap pending \subseteq Left(reg[p])
  BY <1>4 DEF Queued
<1>6. p = probe => Left(reg[p]) = Dependants(p) /\ Dependants(p) # {}
  BY <1>3, <1>4 DEF Expired
<1>7. p # probe => Dependants(p) \cap pending # {}
  BY <1>3 DEF Expired, Queued, Dependants
<1>8. Left(reg[p]) # {} /\ reg[p] \in DOMAIN Pruned(m)
  BY <1>1, <1>4, <1>5, <1>6, <1>7
<1>9. Pruned(m)[reg[p]].mpOwner = p /\ Pruned(m)[reg[p]].mChildren = Left(reg[p])
  BY <1>2, <1>4, <1>8
<1> QED
  BY <1>5, <1>6, <1>8, <1>9

\* Nor does what QueModule prunes on the way in.
LEMMA EntryKeeps ==
    ASSUME Inv
    PROVE  /\ DOMAIN PrunedOnEntry \subseteq DOMAIN allocated
           /\ \A p \in Queued : reg[p] # None /\ ~Expired(p) =>
                /\ reg[p] \in DOMAIN PrunedOnEntry
                /\ PrunedOnEntry[reg[p]].mpOwner = p
                /\ Dependants(p) \cap pending \subseteq PrunedOnEntry[reg[p]].mChildren
                /\ p = probe => PrunedOnEntry[reg[p]].mChildren = Dependants(p)
<1>1. CASE stack = <<>>
  BY <1>1 DEF Inv, PrunedOnEntry, Shared, Kept
<1>2. CASE stack # <<>>
  <2>1. stack \in Seq(Frames) /\ \A i \in 1..Len(stack) : stack[i].mod \in Queued
    BY DEF Inv, Typed
  <2>2. Len(stack) \in Nat \ {0} /\ Last(stack) = stack[Len(stack)]
    BY <1>2, <2>1, Top
  <2>3. Last(stack).mod \in Queued
    BY <2>1, <2>2
  <2> QED
    BY <1>2, <2>3, PruneKeeps DEF Inv, PrunedOnEntry
<1> QED
  BY <1>1, <1>2

----------------------------------------------------------------------------
(* The invariant is inductive.                                             *)

\* QueModule, called for a pending module whose inputs have been computed.
LEMMA QueModuleKeeps ==
    ASSUME FewModules, Inv,
           NEW m \in pending, ~HasPendingInputs(m),
           NEW callers \in Seq(Frames),
           \A i \in 1..Len(callers) : callers[i].mod \in Queued,
           QueModule(m, callers),
           ready' \in Seq(Modules), \A i \in 1..Len(ready') : ~HasPendingInputs(ready'[i])
    PROVE  Inv'
<1> USE DEF Inv
<1>1. /\ pending \subseteq Modules /\ m \in Modules /\ m \notin Queued
      /\ connections' = connections /\ floats' = floats /\ probe' = probe /\ mDepth' = mDepth
      /\ pending' = pending \ {m} /\ next' = next + 1
  BY DEF Typed, QueModule, graph, Queued
<1>2. /\ next = Cardinality(Queued) /\ next \in Nat
      /\ Queued' = Queued \cup {m}
      /\ Cardinality(Queued') = next + 1
      /\ next < Cardinality(Modules)
  BY <1>1, CountQueued DEF Queued, Numbered
<1>3. Narrow(next) = next
  <2>1. HalfRange \in Nat /\ Cardinality(Modules) \in Nat
    BY HalfRangeAssumption, ModulesAssumption, FS_CardinalityType
  <2>2. next \in 0..(HalfRange - 1)
    BY <1>2, <2>1 DEF FewModules
  <2> QED
    BY <2>2, NarrowSmall
<1>4. /\ DOMAIN serial' = Queued'
      /\ serial'[m] = next
      /\ \A x \in Queued : serial'[x] = serial[x]
  BY <1>1, <1>2, <1>3 DEF QueModule, Typed
<1>5. \A x : Dependants(x)' = Dependants(x) /\ Inputs(x)' = Inputs(x)
  BY <1>1 DEF Dependants, Inputs
<1>6. ReadyStays'
  BY <1>1, <1>5 DEF ReadyStays, HasPendingInputs
<1>7. Numbered'
  <2>1. \A x \in Queued : serial[x] \in 0..(next - 1)
    BY DEF Numbered
  <2>2. \A x \in Queued' : serial'[x] \in 0..(next' - 1)
    <3>1. serial'[m] \in 0..(next' - 1)
      BY <1>1, <1>2, <1>4
    <3>2. ASSUME NEW x \in Queued  PROVE  serial'[x] \in 0..(next' - 1)
      <4>1. serial'[x] = serial[x] /\ serial[x] \in 0..(next - 1) /\ next' = next + 1
        BY <1>1, <1>4, <2>1
      <4> QED
        BY <1>2, <4>1
    <3> QED
      BY <1>2, <3>1, <3>2
  <2>3. \A x, y \in Queued' : serial'[x] = serial'[y] => x = y
    BY <1>1, <1>2, <1>4, <2>1 DEF Numbered
  <2>4. \A x \in Queued' : \A p \in Inputs(x) \ {x} : p \in Queued' /\ serial'[p] < serial'[x]
    <3>1. \A p \in Inputs(m) \ {m} : p \in Queued
      BY DEF HasPendingInputs, Inputs, Queued
    <3>2. \A p \in Inputs(m) \ {m} : p \in Queued' /\ serial'[p] < serial'[m]
      BY <1>2, <1>4, <2>1, <3>1
    <3>3. \A x \in Queued : \A p \in Inputs(x) \ {x} : p \in Queued' /\ serial'[p] < serial'[x]
      BY <1>2, <1>4 DEF Numbered
    <3> QED
      BY <1>2, <3>2, <3>3
  <2> QED
    BY <1>1, <1>2, <1>5, <2>2, <2>3, <2>4 DEF Numbered
<1> DEFINE before == PrunedOnEntry
<1>8. /\ DOMAIN before \subseteq DOMAIN allocated
      /\ \A p \in Queued : reg[p] # None /\ ~Expired(p) =>
            /\ reg[p] \in DOMAIN before
            /\ before[reg[p]].mpOwner = p
            /\ Dependants(p) \cap pending \subseteq before[reg[p]].mChildren
            /\ p = probe => before[reg[p]].mChildren = Dependants(p)
  BY EntryKeeps
<1> HIDE DEF before
<1>9. /\ reg'[m] = None \/ (reg'[m] \in Registers \ DOMAIN before)
      /\ reg' \in [Modules -> Registers \cup {None}]
      /\ \A x \in Modules \ {m} : reg'[x] = reg[x]
      /\ reg'[m] # None =>
            /\ DOMAIN allocated' = DOMAIN before \cup {reg'[m]}
            /\ allocated'[reg'[m]] = [mpOwner |-> m, mChildren |-> Dependants(m)]
            /\ \A r \in DOMAIN before : allocated'[r] = before[r]
      /\ reg'[m] = None => allocated' = before
  <2>1. CASE NeedsRegister(m)
    <3>1. PICK r \in Registers \ DOMAIN before :
            /\ reg' = [reg EXCEPT ![m] = r]
            /\ allocated' = [x \in DOMAIN before \cup {r} |->
                                IF x = r THEN [mpOwner |-> m, mChildren |-> Dependants(m)]
                                ELSE before[x]]
      BY <2>1 DEF QueModule, before
    <3> QED
      BY <1>1, <3>1, RegistersAssumption DEF Typed
  <2>2. CASE ~NeedsRegister(m)
    <3>1. allocated' = before /\ reg' = reg
      BY <2>2 DEF QueModule, before
    <3> QED
      BY <1>1, <3>1 DEF Typed, Shared
  <2> QED
    BY <2>1, <2>2
<1>10. Typed'
  <2>1. /\ connections' \subseteq Modules \X Modules
        /\ mDepth' \in [Modules -> Int]
        /\ pending' \subseteq Modules
    BY <1>1 DEF Typed
  <2>2. DOMAIN allocated' \subseteq Registers
    BY <1>8, <1>9 DEF Typed
  <2> DEFINE frame == [mod |-> m, todo |-> IF NeedsRegister(m) THEN Dependants(m) ELSE {}]
  <2>3. stack' = Append(callers, frame)
    BY DEF QueModule
  <2>4. frame \in Frames /\ frame.mod = m
    BY <1>1 DEF Frames, Dependants
  <2> HIDE DEF frame
  <2>5. /\ stack' \in Seq(Frames) /\ Len(stack') = Len(callers) + 1
        /\ stack'[Len(callers) + 1] = frame
        /\ \A i \in 1..Len(callers) : stack'[i] = callers[i]
    BY <2>3, <2>4
  <2>6. \A i \in 1..Len(stack') : stack'[i].mod \in Queued'
    BY <1>2, <2>4, <2>5
  <2> QED
    BY <1>4, <1>9, <2>1, <2>2, <2>5, <2>6 DEF Typed
<1>11. Shared'
  <2>1. \A x \in pending' : reg'[x] = None
    BY <1>1, <1>9 DEF Shared
  \* What has expired stays so.
  <2>2. \A p \in Modules : Expired(p) => Expired(p)'
    BY <1>1, <1>2, <1>5 DEF Expired
  <2>3. \A p \in Queued : reg'[p] = reg[p]
    BY <1>1, <1>9 DEF Queued
  <2>4. \A p \in Queued' : Kept(p)'
    <3>1. ASSUME NEW p \in Queued, reg'[p] # None, ~Expired(p)'
          PROVE  Kept(p)'
      <4>1. reg[p] # None /\ ~Expired(p)
        BY <2>2, <2>3, <3>1 DEF Queued
      <4>2. reg[p] \in DOMAIN before /\ allocated'[reg[p]] = before[reg[p]]
        BY <1>8, <1>9, <4>1
      <4>3. reg[p] \in DOMAIN allocated'
        BY <1>9, <4>2
      <4> QED
        BY <1>1, <1>5, <1>8, <2>3, <4>1, <4>2, <4>3 DEF Kept
    <3>2. Kept(m)'
      BY <1>1, <1>5, <1>9 DEF Kept
    <3>3. \A p \in Queued : Kept(p)'
      BY <3>1 DEF Kept
    <3> QED
      BY <1>2, <3>2, <3>3
  <2>5. \A p, q \in Queued' : GivenAway(p, q)'
    <3>1. SUFFICES ASSUME NEW p \in Queued', NEW q \in Queued',
                          reg'[p] # None, reg'[p] = reg'[q], serial'[p] < serial'[q]
                   PROVE  Expired(p)' /\ \A d \in Dependants(p) : serial'[d] < serial'[q]
      BY <1>5 DEF GivenAway
    <3>2. p # m
      BY <1>1, <1>2, <1>4, <3>1 DEF Numbered
    <3>3. p \in Queued /\ p \in Modules /\ reg'[p] = reg[p]
      BY <1>2, <2>3, <3>2 DEF Queued
    <3>4. CASE q = m
      <4>1. reg[p] \notin DOMAIN before
        BY <1>9, <3>1, <3>3, <3>4
      <4>2. Expired(p)
        BY <1>8, <3>1, <3>3, <4>1
      <4>3. \A d \in Dependants(p) : d \in Queued
        BY <4>2 DEF Expired
      <4>4. \A d \in Dependants(p) : serial'[d] < serial'[m]
        BY <1>2, <1>4, <4>3 DEF Numbered
      <4> QED
        BY <2>2, <3>3, <3>4, <4>2, <4>4
    <3>5. CASE q # m
      <4>1. q \in Queued /\ reg'[q] = reg[q] /\ serial[p] < serial[q]
        BY <1>2, <1>4, <2>3, <3>1, <3>3, <3>5
      <4>2. Expired(p) /\ \A d \in Dependants(p) : serial[d] < serial[q]
        BY <3>1, <3>3, <4>1 DEF Shared, GivenAway
      <4>3. \A d \in Dependants(p) : d \in Queued
        BY <4>2 DEF Expired
      <4> QED
        BY <1>4, <2>2, <3>3, <4>1, <4>2, <4>3
    <3> QED
      BY <3>4, <3>5
  <2> QED
    BY <2>1, <2>4, <2>5 DEF Shared
<1> QED
  BY <1>6, <1>7, <1>10, <1>11

\* The constructor's pass over the depths changes nothing else.
LEMMA ComputeDepthKeeps ==
    ASSUME Inv, NEW m \in Modules, ComputeDepth(m)  PROVE  Inv'
<1>1. UNCHANGED <<connections, typed, floats, probe, pending, ready, stack, next, serial, reg,
                  allocated>>
  BY DEF ComputeDepth, graph
<1>2. PICK low \in Lower(m) : mDepth' = [mDepth EXCEPT ![m] = Narrow(low)]
  BY DEF ComputeDepth
<1>3. Lower(m) \subseteq Int
  <2>1. \A c \in Modules : mDepth[c] - 1 \in Int
    BY DEF Inv, Typed
  <2> QED
    BY <2>1 DEF Lower
<1>4. mDepth' \in [Modules -> Int]
  <2>1. (low + HalfRange) % (2 * HalfRange) \in Int
    BY <1>3, HalfRangeAssumption
  <2>2. Narrow(low) \in Int
    BY <2>1, HalfRangeAssumption DEF Narrow
  <2> QED
    BY <1>2, <2>2 DEF Inv, Typed
<1>5. Typed'
  BY <1>1, <1>4 DEF Inv, Typed, Queued
<1>6. ReadyStays' /\ Numbered'
  BY <1>1 DEF Inv, ReadyStays, Numbered, Queued, HasPendingInputs, Inputs
<1>7. Shared'
  BY <1>1 DEF Inv, Shared, Queued, Kept, GivenAway, Expired, Dependants
<1> QED
  BY <1>5, <1>6, <1>7 DEF Inv

LEMMA FindReadyKeeps ==
    ASSUME Inv, FindReady  PROVE  Inv'
<1>1. UNCHANGED <<connections, typed, floats, probe, mDepth, pending, stack, next, serial, reg,
                  allocated>>
  BY DEF FindReady, graph
<1> DEFINE S == {m \in pending : ~HasPendingInputs(m)}
<1>2. S \subseteq Modules /\ ready' \in SetToSeqs(S)
  BY DEF FindReady, Inv, Typed
<1> HIDE DEF S
<1>3. ready' \in Seq(Modules) /\ \A i \in 1..Len(ready') : ready'[i] \in S
  BY <1>2, Listed
<1>4. Typed'
  BY <1>1, <1>3 DEF Inv, Typed, Queued
<1>5. ReadyStays'
  BY <1>1, <1>3 DEF S, ReadyStays, HasPendingInputs, Inputs
<1>6. Numbered'
  BY <1>1 DEF Inv, Numbered, Queued, Inputs
<1>7. Shared'
  BY <1>1 DEF Inv, Shared, Queued, Kept, GivenAway, Expired, Dependants
<1> QED
  BY <1>4, <1>5, <1>6, <1>7 DEF Inv

\* What becomes of the invariant when only the lists of modules change.
LEMMA ListsOnly ==
    ASSUME Inv,
           UNCHANGED <<connections, floats, probe, mDepth, pending, next, serial, reg, allocated>>,
           stack' \in Seq(Frames), \A i \in 1..Len(stack') : stack'[i].mod \in Queued,
           ready' \in Seq(Modules), \A i \in 1..Len(ready') : ~HasPendingInputs(ready'[i])
    PROVE  Inv'
<1>1. Typed'
  BY DEF Inv, Typed, Queued
<1>2. ReadyStays'
  BY DEF ReadyStays, HasPendingInputs, Inputs
<1>3. Numbered'
  BY DEF Inv, Numbered, Queued, Inputs
<1>4. Shared'
  BY DEF Inv, Shared, Queued, Kept, GivenAway, Expired, Dependants
<1> QED
  BY <1>1, <1>2, <1>3, <1>4 DEF Inv

LEMMA QueNextKeeps ==
    ASSUME FewModules, Inv, QueNext  PROVE  Inv'
<1>1. /\ ready \in Seq(Modules) /\ ready # <<>> /\ ready' = Tail(ready) /\ stack = <<>>
      /\ \A i \in 1..Len(ready) : ~HasPendingInputs(ready[i])
  BY DEF QueNext, Inv, Typed, ReadyStays
<1>2. /\ ready' \in Seq(Modules)
      /\ \A i \in 1..Len(ready') : ready'[i] = ready[i + 1] /\ i + 1 \in 1..Len(ready)
  BY <1>1
<1>3. \A i \in 1..Len(ready') : ~HasPendingInputs(ready'[i])
  BY <1>1, <1>2
<1>4. Head(ready) = ready[1] /\ 1 \in 1..Len(ready)
  BY <1>1
<1>5. CASE Head(ready) \in pending
  <2>1. QueModule(Head(ready), <<>>)
    BY <1>5 DEF QueNext
  <2>2. <<>> \in Seq(Frames) /\ \A i \in 1..Len(<<>>) : <<>>[i].mod \in Queued
    OBVIOUS
  <2>3. ~HasPendingInputs(Head(ready))
    BY <1>1, <1>4
  <2> QED
    BY <1>2, <1>3, <1>5, <2>1, <2>2, <2>3, QueModuleKeeps
<1>6. CASE Head(ready) \notin pending
  <2>1. UNCHANGED <<connections, floats, probe, mDepth, pending, stack, next, serial, reg, allocated>>
    BY <1>6 DEF QueNext, graph
  <2>2. stack' \in Seq(Frames) /\ \A i \in 1..Len(stack') : stack'[i].mod \in Queued
    BY <2>1 DEF Inv, Typed
  <2> QED
    BY <1>2, <1>3, <2>1, <2>2, ListsOnly
<1> QED
  BY <1>5, <1>6

LEMMA VisitKeeps ==
    ASSUME FewModules, Inv, NEW d \in Modules, Visit(d)  PROVE  Inv'
<1> DEFINE callers == [stack EXCEPT ![Len(stack)].todo = @ \ {d}]
<1>1. /\ stack \in Seq(Frames) /\ stack # <<>> /\ d \in Last(stack).todo
      /\ \A i \in 1..Len(stack) : stack[i].mod \in Queued
  BY DEF Visit, Inv, Typed
<1>2. Len(stack) \in Nat \ {0} /\ stack[Len(stack)] \in Frames
  BY <1>1, Top
<1>3. callers \in Seq(Frames) /\ Len(callers) = Len(stack)
  BY <1>1, <1>2 DEF Frames
<1>4. \A i \in 1..Len(stack) : callers[i].mod = stack[i].mod
  BY <1>1, <1>2 DEF Frames
<1>5. ready' = ready /\ ready \in Seq(Modules) /\ \A i \in 1..Len(ready) : ~HasPendingInputs(ready[i])
  BY DEF Visit, Inv, Typed, ReadyStays
<1>6. CASE d \in pending /\ ~HasPendingInputs(d)
  <2>1. QueModule(d, callers)
    BY <1>6 DEF Visit
  <2> HIDE DEF callers
  <2>2. \A i \in 1..Len(callers) : callers[i].mod \in Queued
    BY <1>1, <1>3, <1>4
  <2> QED
    BY <1>3, <1>5, <1>6, <2>1, <2>2, QueModuleKeeps
<1>7. CASE ~(d \in pending /\ ~HasPendingInputs(d))
  <2>1. /\ UNCHANGED <<connections, floats, probe, mDepth, pending, next, serial, reg, allocated>>
        /\ stack' = callers
    BY <1>7 DEF Visit, graph
  <2> HIDE DEF callers
  <2> QED
    BY <1>1, <1>3, <1>4, <1>5, <2>1, ListsOnly
<1> QED
  BY <1>6, <1>7

LEMMA ReturnKeeps ==
    ASSUME Inv, Return  PROVE  Inv'
<1>1. /\ UNCHANGED <<connections, typed, floats, probe, mDepth, pending, ready, next, serial, reg>>
      /\ stack # <<>> /\ stack' = Front(stack)
      /\ stack \in Seq(Frames) /\ \A i \in 1..Len(stack) : stack[i].mod \in Queued
      /\ Queued' = Queued
  BY DEF Return, graph, Inv, Typed, Queued
<1>2. /\ stack' \in Seq(Frames) /\ Len(stack) \in Nat \ {0}
      /\ Len(stack') = Len(stack) - 1
      /\ \A i \in 1..Len(stack') : stack'[i] = stack[i]
      /\ Last(stack) = stack[Len(stack)]
  BY <1>1, Top
<1>3. Last(stack).mod \in Queued
  BY <1>1, <1>2
<1>4. \A i \in 1..Len(stack') : stack'[i].mod \in Queued
  <2>1. \A i \in 1..Len(stack') : i \in 1..Len(stack)
    BY <1>2
  <2> QED
    BY <1>1, <1>2, <2>1
<1>5. /\ DOMAIN allocated' \subseteq DOMAIN allocated
      /\ \A p \in Queued : reg[p] # None /\ ~Expired(p) =>
            /\ reg[p] \in DOMAIN allocated'
            /\ allocated'[reg[p]].mpOwner = p
            /\ Dependants(p) \cap pending \subseteq allocated'[reg[p]].mChildren
            /\ p = probe => allocated'[reg[p]].mChildren = Dependants(p)
  <2>1. CASE pending = {}
    BY <2>1 DEF Return, Inv, Shared, Kept
  <2>2. CASE pending # {}
    <3>1. allocated' = Pruned(Last(stack).mod)
      BY <2>2 DEF Return
    <3> QED
      BY <1>3, <3>1, PruneKeeps DEF Inv
  <2> QED
    BY <2>1, <2>2
<1>6. Typed'
  BY <1>1, <1>2, <1>4, <1>5 DEF Inv, Typed
<1>7. ReadyStays' /\ Numbered'
  BY <1>1 DEF Inv, ReadyStays, Numbered, Queued, HasPendingInputs, Inputs
<1>8. Shared'
  <2>1. \A p \in Modules : Dependants(p)' = Dependants(p) /\ (Expired(p)' <=> Expired(p))
    BY <1>1 DEF Expired, Dependants
  <2>2. \A p \in Queued : p \in Modules
    BY DEF Queued
  <2>3. \A p \in Queued' : Kept(p)'
    BY <1>1, <1>5, <2>1, <2>2 DEF Kept
  <2>4. \A p, q \in Queued' : GivenAway(p, q)'
    BY <1>1, <2>1, <2>2 DEF Inv, Shared, GivenAway
  <2> QED
    BY <1>1, <2>3, <2>4 DEF Inv, Shared
<1> QED
  BY <1>6, <1>7, <1>8 DEF Inv

----------------------------------------------------------------------------
(* The theorems.                                                           *)

\* Init is a state the constructor leaves.
LEMMA Initially == Init => Inv
<1> SUFFICES ASSUME Init  PROVE Inv
  OBVIOUS
<1>1. Queued = {} /\ Cardinality(Queued) = 0
  BY FS_EmptySet DEF Init, Queued
<1>2. Typed
  BY <1>1, GraphsAssumption DEF Init, Typed
<1>3. ReadyStays
  BY DEF Init, ReadyStays
<1>4. Numbered
  BY <1>1 DEF Init, Numbered
<1>5. Shared
  BY <1>1 DEF Init, Shared
<1> QED
  BY <1>2, <1>3, <1>4, <1>5 DEF Inv

\* The order, the numbers and who has which register, in every graph, with or
\* without cycles.
THEOREM Invariance ==
    ASSUME FewModules  PROVE Spec => []Inv
<1>1. Inv /\ [Next]_vars => Inv'
  <2> SUFFICES ASSUME Inv, [Next]_vars  PROVE Inv'
    OBVIOUS
  <2>1. ASSUME NEW m \in Modules, ComputeDepth(m)  PROVE Inv'
    BY <2>1, ComputeDepthKeeps
  <2>2. CASE FindReady
    BY <2>2, FindReadyKeeps
  <2>3. CASE QueNext
    BY <2>3, QueNextKeeps
  <2>4. CASE Return
    BY <2>4, ReturnKeeps
  <2>5. ASSUME NEW d \in Modules, Visit(d)  PROVE Inv'
    BY <2>5, VisitKeeps
  <2>6. CASE UNCHANGED vars
    <3>1. /\ UNCHANGED <<connections, floats, probe, mDepth, pending, next, serial, reg, allocated>>
          /\ stack' = stack /\ ready' = ready
      BY <2>6 DEF vars, graph
    <3> QED
      BY <3>1, ListsOnly DEF Inv, Typed, ReadyStays
  <2> QED
    BY <2>1, <2>2, <2>3, <2>4, <2>5, <2>6 DEF Next
<1> QED
  BY <1>1, Initially, PTL DEF Spec

\* QueModule (dataflow_ctx.cpp) numbers a module after everything it reads,
\* although it recurses into the dependants: in every graph whose serial
\* numbers fit s8.
THEOREM ComputedInOrder ==
    ASSUME FewModules  PROVE Spec => []ProducersFirst
<1>1. Inv => ProducersFirst
  <2> SUFFICES ASSUME Inv  PROVE ProducersFirst
    OBVIOUS
  <2>1. \A f \in ToSet(stack) : f.mod \notin pending /\ f.todo \subseteq Modules
    <3> SUFFICES ASSUME NEW i \in DOMAIN stack
                 PROVE  stack[i].mod \notin pending /\ stack[i].todo \subseteq Modules
      BY DEF ToSet
    <3>1. stack \in Seq(Frames) /\ \A j \in 1..Len(stack) : stack[j].mod \in Queued
      BY DEF Inv, Typed
    <3>2. stack[i] \in Frames /\ stack[i].mod \in Queued
      BY <3>1
    <3> QED
      BY <3>2 DEF Frames, Queued
  <2>2. TypeOK
    BY <2>1 DEF Inv, Typed, TypeOK, Queued
  <2> QED
    BY <2>2 DEF Inv, Typed, Numbered, ProducersFirst
<1> QED
  BY <1>1, Invariance, PTL

\* A register is shared (Prune, regset.Alloc) only when everything that reads it
\* has been computed, and a probed module's is not shared at all.
THEOREM RegistersShared ==
    ASSUME FewModules  PROVE Spec => []InputsIntact
<1>1. Inv => InputsIntact
  <2> SUFFICES ASSUME Inv,
                      NEW p \in DOMAIN serial, reg[p] # None,
                      NEW m \in DOMAIN serial, m \in Dependants(p) \/ (p = probe /\ Dependants(p) # {}),
                      NEW q \in DOMAIN serial \ {p},
                      serial[p] < serial[q], serial[q] <= serial[m], reg[q] = reg[p]
               PROVE  FALSE
    BY DEF InputsIntact, HeldUntil
  <2>1. p \in Queued /\ q \in Queued /\ m \in Queued
    BY DEF Inv, Typed
  <2>2. Expired(p) /\ \A d \in Dependants(p) : serial[d] < serial[q]
    BY <2>1 DEF Inv, Shared, GivenAway
  <2>3. m \in Dependants(p) /\ serial[m] < serial[q]
    BY <2>2 DEF Expired
  <2>4. serial[m] \in Int /\ serial[q] \in Int
    BY <2>1 DEF Inv, Numbered
  <2> QED
    BY <2>3, <2>4
<1> QED
  BY <1>1, Invariance, PTL

----------------------------------------------------------------------------
(* RefreshTopology implements the plan.                                    *)

\* QueModule puts its module at the end of the line and gives it a register
\* that is not wanted: the one step that the plan sees.
LEMMA QueModulePlans ==
    ASSUME FewModules, Inv,
           NEW m \in pending, ~HasPendingInputs(m),
           NEW callers, QueModule(m, callers)
    PROVE  Promise!Plan(m)
<1>1. /\ m \in Modules /\ m \notin Queued /\ DOMAIN serial = Queued
      /\ connections' = connections /\ probe' = probe
  BY DEF Inv, Typed, QueModule, graph, Queued
<1>2. Inputs(m) \ {m} \subseteq Queued
  BY DEF HasPendingInputs, Inputs, Queued
<1>3. Narrow(next) = next /\ next \in Nat
  <2>1. /\ HalfRange \in Nat /\ Cardinality(Modules) \in Nat /\ next = Cardinality(Queued)
        /\ Cardinality(Queued) \in Nat /\ Cardinality(Queued) < Cardinality(Modules)
    BY HalfRangeAssumption, ModulesAssumption, FS_CardinalityType, CountQueued
       DEF Inv, Typed, Numbered, Queued
  <2>2. next \in 0..(HalfRange - 1)
    BY <2>1 DEF FewModules
  <2> QED
    BY <2>1, <2>2, NarrowSmall
<1>4. serial' = [x \in Queued \cup {m} |-> IF x = m THEN next ELSE serial[x]]
  BY <1>1, <1>3 DEF QueModule
<1>5. \/ reg' = reg
      \/ \E r \in Registers \ DOMAIN PrunedOnEntry : reg' = [reg EXCEPT ![m] = r]
  BY DEF QueModule
<1>6. \A p \in Queued : ~Expired(p) <=> Promise!Wanted(p)
  BY <1>1 DEF Expired, Dependants, Promise!Wanted, Promise!ReadBy, Promise!Planned, Queued
<1>7. ASSUME NEW r \in Registers \ DOMAIN PrunedOnEntry, NEW p \in Queued, reg[p] = r
      PROVE  ~Promise!Wanted(p)
  <2>1. reg[p] # None
    BY <1>7, RegistersAssumption
  <2> QED
    BY <1>6, <1>7, <2>1, EntryKeeps
<1>8. \/ UNCHANGED reg
      \/ \E r \in Registers :
            /\ \A p \in Promise!Planned : reg[p] = r => ~Promise!Wanted(p)
            /\ reg' = [reg EXCEPT ![m] = r]
  BY <1>1, <1>5, <1>7 DEF Promise!Planned
<1>9. Promise!Planned = Queued
  BY <1>1 DEF Promise!Planned
<1>10. /\ DOMAIN serial' = Promise!Planned \cup {m}
       /\ \A p \in Promise!Planned : serial'[p] = serial[p] /\ serial[p] < serial'[m]
  BY <1>1, <1>3, <1>4, <1>9 DEF Inv, Numbered
<1>11. m \notin Promise!Planned /\ Promise!Reads(m) \subseteq Promise!Planned
  BY <1>1, <1>2, <1>9 DEF Promise!Reads, Inputs
<1>12. UNCHANGED <<connections, probe>>
  BY <1>1
<1> QED
  BY ONLY <1>8, <1>10, <1>11, <1>12 DEF Promise!Plan

\* The calls of QueModule, and what else happens between them.
LEMMA StepPlans ==
    ASSUME FewModules, Inv, Next
    PROVE  Promise!Next \/ UNCHANGED <<connections, floats, probe, serial, reg>>
<1>1. pending \subseteq Modules
  BY DEF Inv, Typed
<1>2. CASE QueNext
  <2>1. Head(ready) \in pending => ~HasPendingInputs(Head(ready))
    <3>1. ready \in Seq(Modules) /\ ready # <<>> /\ \A i \in 1..Len(ready) : ~HasPendingInputs(ready[i])
      BY <1>2 DEF QueNext, Inv, Typed, ReadyStays
    <3>2. Head(ready) = ready[1] /\ 1 \in 1..Len(ready)
      BY <3>1
    <3> QED
      BY <3>1, <3>2
  <2>2. CASE Head(ready) \in pending
    <3>1. QueModule(Head(ready), <<>>)
      BY <1>2, <2>2 DEF QueNext
    <3> QED
      BY <1>1, <2>1, <2>2, <3>1, QueModulePlans DEF Promise!Next
  <2>3. CASE Head(ready) \notin pending
    BY <1>2, <2>3 DEF QueNext, graph
  <2> QED
    BY <2>2, <2>3
<1>3. ASSUME NEW d \in Modules, Visit(d)
      PROVE  Promise!Next \/ UNCHANGED <<connections, floats, probe, serial, reg>>
  <2> DEFINE callers == [stack EXCEPT ![Len(stack)].todo = @ \ {d}]
  <2>1. CASE d \in pending /\ ~HasPendingInputs(d)
    <3>1. QueModule(d, callers)
      BY <1>3, <2>1 DEF Visit
    <3> HIDE DEF callers
    <3> QED
      BY <2>1, <3>1, QueModulePlans DEF Promise!Next
  <2>2. CASE ~(d \in pending /\ ~HasPendingInputs(d))
    BY <1>3, <2>2 DEF Visit, graph
  <2> QED
    BY <2>1, <2>2
<1>4. CASE (\E m \in Modules : ComputeDepth(m)) \/ FindReady \/ Return
  BY <1>4 DEF ComputeDepth, FindReady, Return, graph
<1> QED
  BY <1>2, <1>3, <1>4 DEF Next

\* RefreshTopology (graph.cpp) and QueModule (dataflow_ctx.cpp) put every module
\* after what it reads and share registers only among outputs that nobody still
\* wants, step by step, in every graph whose serial numbers fit s8.
THEOREM KeepsPlan ==
    ASSUME FewModules  PROVE Spec => ImplementsPlan
<1>1. Init => Promise!Init
  BY GraphsAssumption DEF Init, Promise!Init
<1>2. Inv /\ [Next]_vars => [Promise!Next]_<<connections, probe, serial, reg>>
  <2>1. CASE UNCHANGED vars
    BY <2>1 DEF vars, graph
  <2> QED
    BY <2>1, StepPlans
<1> QED
  BY <1>1, <1>2, Invariance, PTL DEF Spec, ImplementsPlan, Promise!Spec
=============================================================================

--------------------------- MODULE SettingsProofs ---------------------------
(* Proofs about the runtime settings: what a restart at any moment finds   *)
(* in runtime.json (RuntimeFile), and how the automatic escalation, one of *)
(* the two threads that change them, moves the level (AutoUam, the last    *)
(* section).                                                               *)
EXTENDS RuntimeFile, AutoUam, FiniteSetTheorems, SequenceTheorems, TLAPS

Holding == {"write", "rename"}             \* the stages with json.tmp open
Loaded  == {"create", "write", "rename"}   \* the stages with a whole snapshot
Saving  == {"snapshot", "create", "write", "rename"}

Typed == TypeOK /\ \A w \in Writers : pc[w] = "snapshot" => nth[w] <= Len(Fields)

\* A lone call is the only one, and nobody has a file open that such a call has put in
\* place, or that a start has found.
Alone ==
  /\ \A w \in lone : Active = {w}
  /\ \A w \in Writers : pc[w] \in Saving => bound
  /\ \A w \in Writers : pc[w] \notin Holding => fd[w] = None
  /\ saved # None => \A w \in Writers : fd[w] # json

\* A lone call copies the settings in force and writes them to an empty json.tmp.
Copied ==
  \A w \in lone :
    /\ pc[w] = "snapshot" =>
         \A i \in 1 .. Len(Fields) : i < nth[w] => snap[w][Fields[i]] = mem[Fields[i]]
    /\ pc[w] \in Loaded => snap[w] = mem
    /\ pc[w] \in Holding => fd[w] = tmp /\ tmp \in Inodes
    /\ pc[w] = "write" => text[tmp].size = 0
    /\ pc[w] = "rename" => text[tmp].json = mem

Within(s) == \A f \in Names : s[f] \in since[f]

\* No value older than the settings last saved by a lone call is in force, in a snapshot, in a file that
\* a call may still put in place, or in runtime.json.
Recent ==
  /\ Within(mem)
  /\ \A w \in Writers : pc[w] = "snapshot" =>
       \A i \in 1 .. Len(Fields) : i < nth[w] => snap[w][Fields[i]] \in since[Fields[i]]
  /\ \A w \in Writers : pc[w] \in Loaded => Within(snap[w])
  /\ (\E w \in Writers : pc[w] \in Holding) /\ tmp # None /\ text[tmp].json # Torn =>
       Within(text[tmp].json)
  /\ json # None /\ text[json].json # Torn => Within(text[json].json)

Inv == Typed /\ Alone /\ Copied /\ Recent /\ KeptSurvives /\ CrashIsAtomic
-----------------------------------------------------------------------------
(* Types.                                                                  *)

LEMMA FieldNames ==
  /\ Len(Fields) \in Nat /\ Len(Fields) >= 1
  /\ \A i \in 1 .. Len(Fields) : Fields[i] \in Names
  /\ \A f \in Names : \E i \in 1 .. Len(Fields) : f = Fields[i]
<1>1. Len(Fields) \in Nat /\ Len(Fields) # 0 /\ DOMAIN Fields = 1 .. Len(Fields)
  BY FieldAssumption, LenProperties, EmptySeq
<1> QED BY <1>1 DEF Names, ToSet

\* There is always an inode that no name and no writer holds.
LEMMA SomeUnused ==
  ASSUME TypeOK, tmp = None
  PROVE  Unused # {}
<1> DEFINE F == { fd[v] : v \in Active }
<1>1. IsFiniteSet(F) /\ Cardinality(F) \in Nat /\ Cardinality(F) <= Cardinality(Writers)
                     /\ Cardinality(Writers) \in Nat
  <2> DEFINE g == [v \in Active |-> fd[v]]
  <2>1. IsFiniteSet(Active) /\ Cardinality(Active) <= Cardinality(Writers)
    BY InodeAssumption, FS_Subset DEF Active
  <2>2. g \in [Active -> F] /\ \A y \in F : \E v \in Active : g[v] = y
    OBVIOUS
  <2>3. g \in Surjection(Active, F)
    BY <2>2 DEF Surjection
  <2> HIDE DEF g, F
  <2>4. IsFiniteSet(F) /\ Cardinality(F) <= Cardinality(Active)
    BY <2>1, <2>3, FS_Surjection
  <2>5. Cardinality(F) \in Nat /\ Cardinality(Active) \in Nat /\ Cardinality(Writers) \in Nat
    BY <2>1, <2>4, InodeAssumption, FS_CardinalityType
  <2> QED BY <2>1, <2>4, <2>5
<1>2. IsFiniteSet(F \cup {json}) /\ Cardinality(F \cup {json}) <= Cardinality(Writers) + 1
                                 /\ Cardinality(F \cup {json}) \in Nat
  <2> HIDE DEF F
  <2>1. Cardinality(F \cup {json}) = Cardinality(F) \/ Cardinality(F \cup {json}) = Cardinality(F) + 1
    BY <1>1, FS_AddElement
  <2> QED BY <1>1, <2>1, FS_AddElement
<1> HIDE DEF F
<1>3. ASSUME Inodes \subseteq F \cup {json} PROVE FALSE
  <2>1. Cardinality(Inodes) <= Cardinality(F \cup {json}) /\ Cardinality(Inodes) \in Nat
    BY <1>2, <1>3, FS_Subset, FS_CardinalityType, InodeAssumption
  <2> QED BY <1>1, <1>2, <2>1, InodeAssumption
<1>4. PICK i \in Inodes : i \notin F \cup {json}
  BY <1>3
<1>5. i # None
  BY NameAssumption
<1>6. i \in Unused
  BY <1>4, <1>5 DEF Unused, F
<1> QED BY <1>6

\* The file that Create opens is not runtime.json.
LEMMA Opened ==
  ASSUME TypeOK, NEW w \in Writers, Create(w)
  PROVE  \E i \in Inodes :
           /\ i # json
           /\ text' = [text EXCEPT ![i] = [json |-> Torn, size |-> 0]]
           /\ fd' = [fd EXCEPT ![w] = i] /\ tmp' = i
<1>1. PICK i \in IF tmp = None THEN {CHOOSE u \in Unused : TRUE} ELSE {tmp} :
        /\ text' = [text EXCEPT ![i] = [json |-> Torn, size |-> 0]]
        /\ fd' = [fd EXCEPT ![w] = i] /\ tmp' = i
  BY DEF Create
<1>2. CASE tmp = None
  <2>1. i \in Unused
    BY <1>1, <1>2, SomeUnused
  <2>2. i \in Inodes /\ i # json
    BY <2>1 DEF Unused
  <2> QED BY <1>1, <2>2
<1>3. CASE tmp # None
  <2>1. i = tmp /\ tmp \in Inodes /\ (json # None => json # tmp)
    BY <1>1, <1>3 DEF TypeOK
  <2>2. i # json
    BY <1>3, <2>1
  <2> QED BY <1>1, <2>1, <2>2
<1> QED BY <1>2, <1>3

LEMMA WrittenTyped ==
  ASSUME NEW old \in Text, NEW s \in Snapshots
  PROVE  /\ Written(old, s) \in Text
         /\ Written(old, s).json = s \/ Written(old, s).json = Torn
         /\ old.size = 0 => Written(old, s).json = s
<1>1. Size[s] \in Nat /\ old.size \in Nat
  BY FieldAssumption DEF Text
<1> QED BY <1>1 DEF Written, Text

LEMMA PartlyTyped ==
  ASSUME NEW old \in Text, NEW s \in Snapshots, NEW t \in Partly(old, s)
  PROVE  t \in Text /\ (t = old \/ t.json = Torn)
<1>1. Size[s] \in Nat /\ old.size \in Nat
  BY FieldAssumption DEF Text
<1> QED BY <1>1 DEF Partly, Text

LEMMA RecoveredTyped ==
  ASSUME TypeOK
  PROVE  Recovered \subseteq Snapshots /\ Content \in Snapshots \cup {Torn, None}
  BY FieldAssumption, NameAssumption DEF TypeOK, Recovered, Content, Readable, Text

\* runtime.json reads as before while its name and its inode stay as they are.
LEMMA SameContent ==
  ASSUME UNCHANGED json, json # None => text'[json] = text[json]
  PROVE  Content' = Content /\ (Readable' <=> Readable)
  BY DEF Content, Readable

\* A call ends, by its rename or before it.
LEMMA Ends ==
  ASSUME Typed, Alone, NEW w \in Writers, End(w), pc[w] # "idle"
  PROVE  /\ pc'[w] = "idle" /\ fd'[w] = None /\ lone' = {} /\ Active' = Active \ {w}
         /\ \A x \in Writers \ {w} : pc'[x] = pc[x] /\ fd'[x] = fd[x]
         /\ UNCHANGED <<mem, bound, snap, nth>>
<1>1. pc \in [Writers -> PCs] /\ fd \in [Writers -> Inodes \cup {None}] /\ lone \subseteq Active
  BY DEF Typed, TypeOK
<1>2. /\ pc'[w] = "idle" /\ fd'[w] = None
      /\ \A x \in Writers \ {w} : pc'[x] = pc[x] /\ fd'[x] = fd[x]
  BY <1>1 DEF End, Goto
<1>3. Active' = Active \ {w}
  BY <1>2 DEF Active
<1>4. lone' = {}
  BY <1>1 DEF End, Alone, Active
<1> QED BY <1>2, <1>3, <1>4 DEF End

LEMMA Typing ==
  ASSUME Typed, [Next]_vars
  PROVE  Typed'
<1>t. /\ mem \in Snapshots /\ text \in [Inodes -> Text]
      /\ pc \in [Writers -> PCs] /\ snap \in [Writers -> Snapshots]
      /\ nth \in [Writers -> 1 .. Len(Fields) + 1]
      /\ fd \in [Writers -> Inodes \cup {None}] /\ lone \subseteq Active
      /\ since \in [Names -> SUBSET Values] /\ stores \in 0 .. MaxStores
      /\ crashes \in 0 .. MaxCrashes /\ faults \in 0 .. MaxFaults
      /\ Content \in Snapshots \cup {Torn, None}
  BY RecoveredTyped DEF Typed, TypeOK
<1>f. /\ Len(Fields) \in Nat /\ Len(Fields) >= 1
      /\ MaxStores \in Nat /\ MaxCrashes \in Nat /\ MaxFaults \in Nat
  BY FieldNames, BoundAssumption
<1>k. Known(mem) \in [Names -> SUBSET Values]
  BY <1>t DEF Known, Snapshots
<1>1. ASSUME NEW w \in Writers, Store(w) PROVE Typed'
  <2>1. PICK f \in Names, v \in Values : /\ mem' = [mem EXCEPT ![f] = v]
                                         /\ since' = [since EXCEPT ![f] = @ \cup {v}]
    BY <1>1 DEF Store
  <2>2. mem' \in Snapshots /\ since' \in [Names -> SUBSET Values]
    BY <1>t, <2>1 DEF Snapshots
  <2>3. pc' = [pc EXCEPT ![w] = "stored"] /\ pc' \in [Writers -> PCs]
    BY <1>1, <1>t DEF Store, Goto, PCs
  <2>4. Active' = Active \cup {w}
    BY <1>t, <2>3 DEF Active
  <2>5. lone' \subseteq Active'
    <3>1. lone' \in {lone, {w}, {}}
      BY <1>1 DEF Store
    <3> QED BY <1>t, <2>4, <3>1
  <2>6. base' \in Snapshots \cup {Torn, None}
    BY <1>1, <1>t DEF Store, Typed, TypeOK
  <2>7. stores' \in 0 .. MaxStores
    BY <1>1, <1>t, <1>f DEF Store
  <2>8. \A x \in Writers : pc'[x] = "snapshot" => nth'[x] <= Len(Fields)
    BY <1>1, <1>t, <2>3 DEF Store, call, Typed
  <2>9. TypeOK'
    BY <1>1, <2>2, <2>3, <2>5, <2>6, <2>7 DEF Store, file, call, Typed, TypeOK
  <2> QED BY <2>8, <2>9 DEF Typed
<1>2. ASSUME NEW w \in Writers, Persist(w) PROVE Typed'
  <2>1. nth' = [nth EXCEPT ![w] = 1] /\ nth' \in [Writers -> 1 .. Len(Fields) + 1]
    BY <1>2, <1>t, <1>f DEF Persist
  <2>2. /\ pc' = [pc EXCEPT ![w] = IF bound THEN "snapshot" ELSE "idle"]
        /\ pc' \in [Writers -> PCs]
    BY <1>2, <1>t DEF Persist, Goto, PCs
  <2>3. lone' \subseteq Active'
    <3>1. CASE bound
      <4>1. Active' = Active
        BY <1>2, <1>t, <2>2, <3>1 DEF Active, Persist
      <4> QED BY <1>2, <1>t, <3>1, <4>1 DEF Persist
    <3>2. CASE ~bound
      <4>1. Active' = Active \ {w}
        BY <1>2, <1>t, <2>2, <3>2 DEF Active, Persist
      <4> QED BY <1>2, <1>t, <3>2, <4>1 DEF Persist
    <3> QED BY <3>1, <3>2
  <2>4. \A x \in Writers : pc'[x] = "snapshot" => nth'[x] <= Len(Fields)
    BY <1>t, <1>f, <2>1, <2>2 DEF Typed
  <2>5. TypeOK'
    BY <1>2, <2>1, <2>2, <2>3 DEF Persist, file, Typed, TypeOK
  <2> QED BY <2>4, <2>5 DEF Typed
<1>3. ASSUME NEW w \in Writers, Load(w) PROVE Typed'
  <2>1. nth[w] \in 1 .. Len(Fields) /\ Fields[nth[w]] \in Names
    BY <1>3, <1>t, <1>f, FieldNames DEF Load, Typed
  <2>2. snap' \in [Writers -> Snapshots]
    <3>1. [snap[w] EXCEPT ![Fields[nth[w]]] = mem[Fields[nth[w]]]] \in Snapshots
      BY <1>t, <2>1 DEF Snapshots
    <3> QED BY <1>3, <1>t, <3>1 DEF Load
  <2>3. nth' = [nth EXCEPT ![w] = nth[w] + 1] /\ nth' \in [Writers -> 1 .. Len(Fields) + 1]
    BY <1>3, <1>t, <1>f, <2>1 DEF Load
  <2>4. /\ pc' = [pc EXCEPT ![w] = IF nth[w] = Len(Fields) THEN "create" ELSE "snapshot"]
        /\ pc' \in [Writers -> PCs]
    BY <1>3, <1>t DEF Load, Goto, PCs
  <2>5. Active' = Active
    BY <1>3, <1>t, <2>4 DEF Load, Active
  <2>6. \A x \in Writers : pc'[x] = "snapshot" => nth'[x] <= Len(Fields)
    BY <1>t, <1>f, <2>1, <2>3, <2>4 DEF Typed
  <2>7. TypeOK'
    BY <1>3, <2>2, <2>3, <2>4, <2>5 DEF Load, file, History, Typed, TypeOK
  <2> QED BY <2>6, <2>7 DEF Typed
<1>4. ASSUME NEW w \in Writers, Create(w) PROVE Typed'
  <2>1. PICK i \in Inodes : /\ i # json
                            /\ text' = [text EXCEPT ![i] = [json |-> Torn, size |-> 0]]
                            /\ fd' = [fd EXCEPT ![w] = i] /\ tmp' = i
    BY <1>4, Opened DEF Typed
  <2>2. [json |-> Torn, size |-> 0] \in Text
    BY DEF Text
  <2>3. text' \in [Inodes -> Text] /\ fd' \in [Writers -> Inodes \cup {None}]
    BY <1>t, <2>1, <2>2
  <2>4. pc' = [pc EXCEPT ![w] = "write"] /\ pc' \in [Writers -> PCs]
    BY <1>4, <1>t DEF Create, Goto, PCs
  <2>5. Active' = Active
    BY <1>4, <1>t, <2>4 DEF Create, Active
  <2>6. \A x \in Writers : pc'[x] = "snapshot" => nth'[x] <= Len(Fields)
    BY <1>4, <1>t, <2>4 DEF Create, Typed
  <2>7. TypeOK'
    BY <1>4, <2>1, <2>3, <2>4, <2>5 DEF Create, History, Typed, TypeOK
  <2> QED BY <2>6, <2>7 DEF Typed
<1>5. ASSUME NEW w \in Writers, Write(w) PROVE Typed'
  <2>1. text' \in [Inodes -> Text]
    <3>1. CASE fd[w] \in Inodes
      <4>1. Written(text[fd[w]], snap[w]) \in Text
        BY <1>t, <3>1, WrittenTyped
      <4> QED BY <1>5, <1>t, <4>1 DEF Write
    <3>2. CASE fd[w] \notin Inodes
      BY <1>5, <1>t, <3>2 DEF Write
    <3> QED BY <3>1, <3>2
  <2>2. pc' = [pc EXCEPT ![w] = "rename"] /\ pc' \in [Writers -> PCs]
    BY <1>5, <1>t DEF Write, Goto, PCs
  <2>3. Active' = Active
    BY <1>5, <1>t, <2>2 DEF Write, Active
  <2>4. \A x \in Writers : pc'[x] = "snapshot" => nth'[x] <= Len(Fields)
    BY <1>5, <1>t, <2>2 DEF Write, call, Typed
  <2>5. TypeOK'
    BY <1>5, <2>1, <2>2, <2>3 DEF Write, call, History, Typed, TypeOK
  <2> QED BY <2>4, <2>5 DEF Typed
<1>e. ASSUME NEW w \in Writers, End(w)
      PROVE  /\ pc' \in [Writers -> PCs] /\ lone' \subseteq Active'
             /\ fd' \in [Writers -> Inodes \cup {None}]
             /\ \A x \in Writers : pc'[x] = "snapshot" => nth'[x] <= Len(Fields)
  <2>1. pc' = [pc EXCEPT ![w] = "idle"] /\ pc' \in [Writers -> PCs]
    BY <1>e, <1>t DEF End, Goto, PCs
  <2>2. Active' = Active \ {w} /\ lone' = lone \ {w}
    BY <1>e, <1>t, <2>1 DEF End, Active
  <2> QED BY <1>e, <1>t, <2>1, <2>2 DEF End, Typed
<1>6. ASSUME NEW w \in Writers, Rename(w) PROVE Typed'
  <2>1. json' \in Inodes \cup {None} /\ tmp' \in Inodes \cup {None} /\ (json' # None => json' # tmp')
    BY <1>6 DEF Rename, Renamed, Typed, TypeOK
  <2>2. saved' \in Snapshots \cup {None} /\ since' \in [Names -> SUBSET Values]
    BY <1>6, <1>t, <1>k DEF Rename
  <2>3. End(w) /\ UNCHANGED <<text, faults>>
    BY <1>6 DEF Rename
  <2>4. TypeOK'
    BY <1>e, <2>1, <2>2, <2>3 DEF End, Typed, TypeOK
  <2> QED BY <1>e, <2>3, <2>4 DEF Typed
<1>9. ASSUME NEW w \in Writers, Fail(w) PROVE Typed'
  <2>1. text' \in [Inodes -> Text]
    <3>1. CASE pc[w] = "write"
      <4>1. PICK t \in Partly(text[fd[w]], snap[w]) : text' = [text EXCEPT ![fd[w]] = t]
        BY <1>9, <3>1 DEF Fail
      <4>2. CASE fd[w] \in Inodes
        <5>1. t \in Text
          BY <1>t, <4>2, PartlyTyped
        <5> QED BY <1>t, <4>1, <5>1
      <4>3. CASE fd[w] \notin Inodes
        BY <1>t, <4>1, <4>3
      <4> QED BY <4>2, <4>3
    <3>2. CASE pc[w] # "write"
      BY <1>9, <1>t, <3>2 DEF Fail
    <3> QED BY <3>1, <3>2
  <2>2. End(w) /\ UNCHANGED <<json, tmp, saved, since>> /\ faults' \in 0 .. MaxFaults
    BY <1>9, <1>t, <1>f DEF Fail
  <2>3. TypeOK'
    BY <1>e, <2>1, <2>2 DEF End, Typed, TypeOK
  <2> QED BY <1>e, <2>2, <2>3 DEF Typed
<1>7. CASE Restart
  <2>1. mem' \in Snapshots /\ bound' \in BOOLEAN
    BY <1>7, RecoveredTyped DEF Restart, Rebind, Typed
  <2>2. since' \in [Names -> SUBSET Values]
    BY <1>7, <2>1 DEF Restart, Known, Snapshots
  <2>3. pc' = [w \in Writers |-> "idle"] /\ pc' \in [Writers -> PCs]
    BY <1>7 DEF Restart, PCs
  <2>4. crashes' \in 0 .. MaxCrashes
    BY <1>7, <1>t, <1>f DEF Restart
  <2>5. lone' = {} /\ fd' \in [Writers -> Inodes \cup {None}] /\ saved' \in Snapshots \cup {None}
    BY <1>7, <1>t DEF Restart, Readable
  <2>6. TypeOK'
    BY <1>7, <2>1, <2>2, <2>3, <2>4, <2>5 DEF Restart, file, Typed, TypeOK
  <2> QED BY <2>3, <2>6 DEF Typed
<1>8. CASE UNCHANGED vars
  <2>1. TypeOK'
    BY <1>8 DEF vars, file, call, Typed, TypeOK, Active
  <2> QED BY <1>8, <2>1 DEF vars, call, Typed
<1> QED BY <1>1, <1>2, <1>3, <1>4, <1>5, <1>6, <1>7, <1>8, <1>9 DEF Next, Step

LEMMA TypedInit ==
  ASSUME Init
  PROVE  Typed
<1>1. 1 \in 1 .. Len(Fields) + 1 /\ 1 <= Len(Fields)
  BY FieldNames
<1>2. Known(mem) \in [Names -> SUBSET Values]
  BY FieldAssumption DEF Init, Known, Snapshots
<1> QED BY <1>1, <1>2, FieldAssumption, BoundAssumption DEF Init, Typed, TypeOK, PCs, Text, Active

\* Types of the settings, the calls in progress and the files (runtime.rs:221-275, :328-345).
THEOREM RuntimeFileTypeOK == Spec => []TypeOK
<1>1. Init => Typed
  BY TypedInit
<1>2. Typed /\ [Next]_vars => Typed'
  BY Typing
<1>3. Typed => TypeOK
  BY DEF Typed
<1> QED BY <1>1, <1>2, <1>3, PTL DEF Spec
-----------------------------------------------------------------------------
(* The inductive invariant, one conjunct at a time.                        *)

LEMMA AloneKept ==
  ASSUME Typed, Alone, Copied, KeptSurvives, [Next]_vars
  PROVE  Alone'
<1>t. /\ pc \in [Writers -> PCs] /\ fd \in [Writers -> Inodes \cup {None}]
      /\ lone \subseteq Active /\ json \in Inodes \cup {None}
  BY DEF Typed, TypeOK
<1> USE DEF Active
<1>1. ASSUME NEW w \in Writers, Store(w) PROVE Alone'
  <2>1. /\ pc' = [pc EXCEPT ![w] = "stored"] /\ UNCHANGED <<bound, saved, json, fd>>
        /\ pc[w] \in {"idle", "stored"}
    BY <1>1 DEF Store, Goto, file, call
  <2>2. \A x \in Writers : /\ pc'[x] \in Saving => bound'
                           /\ pc'[x] \notin Holding => fd'[x] = None
    BY <1>t, <2>1 DEF Alone, Saving, Holding
  <2>3. \A x \in lone' : Active' = {x}
    <3>1. CASE pc[w] = "stored"
      BY <1>1, <1>t, <2>1, <3>1 DEF Store, Alone
    <3>2. CASE pc[w] = "idle"
      <4>1. Active' = Active \cup {w}
        BY <1>t, <2>1
      <4> QED BY <1>1, <3>2, <4>1 DEF Store
    <3> QED BY <2>1, <3>1, <3>2
  <2> QED BY <2>1, <2>2, <2>3 DEF Alone
<1>2. ASSUME NEW w \in Writers, Persist(w) PROVE Alone'
  <2>1. /\ pc[w] = "stored" /\ UNCHANGED <<bound, saved, json, fd>>
        /\ pc' = [pc EXCEPT ![w] = IF bound THEN "snapshot" ELSE "idle"]
    BY <1>2 DEF Persist, Goto, file
  <2>2. \A x \in Writers : /\ pc'[x] \in Saving => bound'
                           /\ pc'[x] \notin Holding => fd'[x] = None
    BY <1>t, <2>1 DEF Alone, Saving, Holding
  <2>3. \A x \in lone' : Active' = {x}
    <3>1. CASE bound
      BY <1>2, <1>t, <2>1, <3>1 DEF Persist, Alone
    <3>2. CASE ~bound
      BY <1>2, <1>t, <2>1, <3>2 DEF Persist, Alone
    <3> QED BY <3>1, <3>2
  <2> QED BY <2>1, <2>2, <2>3 DEF Alone
<1>3. ASSUME NEW w \in Writers, Load(w) \/ Create(w) \/ Write(w) PROVE Alone'
  <2>1. pc[w] \in Saving /\ UNCHANGED <<saved, bound, lone, json>>
    BY <1>3 DEF Load, Create, Write, History, Saving, file
  <2>2. /\ \A x \in Writers \ {w} : pc'[x] = pc[x]
        /\ pc'[w] \in Saving
    BY <1>3, <1>t DEF Load, Create, Write, Goto, Saving
  <2>3. Active' = Active
    BY <2>1, <2>2 DEF Saving
  <2>4. \A x \in Writers : pc'[x] \in Saving => bound'
    BY <2>1, <2>2 DEF Alone
  <2>5. /\ \A x \in Writers : pc'[x] \notin Holding => fd'[x] = None
        /\ saved' # None => \A x \in Writers : fd'[x] # json'
    <3>1. CASE Load(w)
      BY <1>t, <2>1, <3>1 DEF Load, Goto, Alone, Holding
    <3>2. CASE Write(w)
      BY <1>t, <2>1, <3>2 DEF Write, Goto, call, Alone, Holding
    <3>3. CASE Create(w)
      <4>1. PICK i \in Inodes : i # json /\ fd' = [fd EXCEPT ![w] = i]
        BY <3>3, Opened DEF Typed
      <4>2. pc'[w] = "write" /\ fd'[w] = i /\ \A x \in Writers \ {w} : fd'[x] = fd[x]
        BY <1>t, <3>3, <4>1 DEF Create, Goto
      <4> QED BY <2>1, <2>2, <4>1, <4>2 DEF Alone, Holding
    <3> QED BY <1>3, <3>1, <3>2, <3>3
  <2> QED BY <2>1, <2>3, <2>4, <2>5 DEF Alone
<1>4. ASSUME NEW w \in Writers, Rename(w) PROVE Alone'
  <2>1. /\ pc[w] = "rename" /\ saved' = (IF w \in lone THEN mem ELSE None) /\ Renamed
        /\ pc'[w] = "idle" /\ fd'[w] = None /\ lone' = {} /\ bound' = bound
        /\ \A x \in Writers \ {w} : pc'[x] = pc[x] /\ fd'[x] = fd[x]
    BY <1>4, Ends DEF Rename
  <2>2. \A x \in Writers : /\ pc'[x] \in Saving => bound'
                           /\ pc'[x] \notin Holding => fd'[x] = None
    BY <2>1 DEF Alone, Saving
  <2>3. ASSUME w \in lone PROVE \A x \in Writers : fd'[x] # json'
    <3>1. \A x \in Writers : fd'[x] = None
      BY <2>1, <2>2, <2>3 DEF Alone, Holding
    <3>2. json' # None
      BY <2>1, <2>3, NameAssumption DEF Copied, Holding, Renamed
    <3> QED BY <3>1, <3>2
  <2> QED BY <2>1, <2>2, <2>3 DEF Alone
<1>5. ASSUME NEW w \in Writers, Fail(w) PROVE Alone'
  <2>1. /\ pc'[w] = "idle" /\ fd'[w] = None /\ lone' = {} /\ UNCHANGED <<bound, saved, json>>
        /\ \A x \in Writers \ {w} : pc'[x] = pc[x] /\ fd'[x] = fd[x]
    BY <1>5, Ends DEF Fail
  <2>2. saved # None => json # None
    BY NameAssumption DEF KeptSurvives, Readable, Content, Alone
  <2> QED BY <2>1, <2>2 DEF Alone, Saving
<1>6. CASE Restart
  <2>1. saved' # None => json' # None
    BY <1>6 DEF Restart, Readable, Content, file
  <2> QED BY <1>6, <2>1 DEF Restart, Alone, Saving
<1>7. CASE UNCHANGED vars
  BY <1>7 DEF vars, Alone, call, file
<1> QED BY <1>1, <1>2, <1>3, <1>4, <1>5, <1>6, <1>7 DEF Next, Step

\* Whoever takes a step of a call is the only lone writer there can be.
LEMMA OnlyMe ==
  ASSUME Typed, Alone, NEW w \in Writers, pc[w] # "idle"
  PROVE  lone \subseteq {w}
  BY DEF Typed, TypeOK, Alone, Active

LEMMA CopiedKept ==
  ASSUME Typed, Alone, Copied, [Next]_vars
  PROVE  Copied'
<1>t. /\ mem \in Snapshots /\ text \in [Inodes -> Text]
      /\ pc \in [Writers -> PCs] /\ snap \in [Writers -> Snapshots]
      /\ nth \in [Writers -> 1 .. Len(Fields) + 1]
      /\ fd \in [Writers -> Inodes \cup {None}] /\ lone \subseteq Active
      /\ lone \subseteq Writers
  BY DEF Typed, TypeOK, Active
<1>1. ASSUME NEW w \in Writers, Store(w) PROVE Copied'
  <2>1. pc'[w] = "stored"
    BY <1>1, <1>t DEF Store, Goto
  <2>2. lone' \subseteq {w}
    <3>1. CASE pc[w] = "stored"
      BY <1>1, <3>1, OnlyMe DEF Store
    <3>2. CASE pc[w] # "stored"
      BY <1>1, <3>2 DEF Store
    <3> QED BY <3>1, <3>2
  <2> QED BY <2>1, <2>2 DEF Copied, Loaded, Holding
<1>2. ASSUME NEW w \in Writers, Persist(w) PROVE Copied'
  <2>1. pc'[w] \in {"snapshot", "idle"} /\ nth'[w] = 1
    BY <1>2, <1>t DEF Persist, Goto
  <2>2. lone' \subseteq {w}
    BY <1>2, OnlyMe DEF Persist
  <2> QED BY <2>1, <2>2, FieldNames DEF Copied, Loaded, Holding
<1>3. ASSUME NEW w \in Writers, Load(w) PROVE Copied'
  <2>1. /\ pc[w] = "snapshot" /\ UNCHANGED <<mem, lone>>
        /\ pc' = [pc EXCEPT ![w] = IF nth[w] = Len(Fields) THEN "create" ELSE "snapshot"]
        /\ nth' = [nth EXCEPT ![w] = nth[w] + 1]
        /\ snap' = [snap EXCEPT ![w][Fields[nth[w]]] = mem[Fields[nth[w]]]]
    BY <1>3, <1>t DEF Load, Goto, History
  <2>2. lone \subseteq {w}
    BY <2>1, OnlyMe
  <2>3. nth[w] \in 1 .. Len(Fields) /\ Len(Fields) \in Nat /\ Fields[nth[w]] \in Names
    BY <1>t, <2>1, FieldNames DEF Typed
  <2>4. snap'[w] = [snap[w] EXCEPT ![Fields[nth[w]]] = mem[Fields[nth[w]]]] /\ snap[w] \in Snapshots
    BY <1>t, <2>1
  <2>5. ASSUME w \in lone, NEW i \in 1 .. Len(Fields), i < nth[w] + 1
        PROVE  snap'[w][Fields[i]] = mem[Fields[i]]
    <3>1. Fields[i] \in Names
      BY FieldNames
    <3>2. CASE Fields[i] = Fields[nth[w]]
      BY <2>3, <2>4, <3>2 DEF Snapshots
    <3>3. CASE Fields[i] # Fields[nth[w]]
      <4>1. i < nth[w]
        BY <2>3, <2>5, <3>3
      <4>2. snap[w][Fields[i]] = mem[Fields[i]]
        BY <2>1, <2>5, <4>1 DEF Copied
      <4> QED BY <2>4, <3>1, <3>3, <4>2 DEF Snapshots
    <3> QED BY <3>2, <3>3
  <2>6. CASE nth[w] = Len(Fields)
    <3>1. pc'[w] = "create"
      BY <1>t, <2>1, <2>6
    <3>2. ASSUME w \in lone PROVE snap'[w] = mem
      <4>1. \A f \in Names : snap'[w][f] = mem[f]
        <5>1. SUFFICES ASSUME NEW f \in Names PROVE snap'[w][f] = mem[f]
          OBVIOUS
        <5>2. PICK i \in 1 .. Len(Fields) : f = Fields[i]
          BY FieldNames
        <5>3. i < nth[w] + 1
          BY <2>3, <2>6
        <5> QED BY <2>5, <3>2, <5>2, <5>3
      <4>2. snap'[w] \in Snapshots
        BY <1>t, <2>3, <2>4 DEF Snapshots
      <4> QED BY <1>t, <4>1, <4>2 DEF Snapshots
    <3> QED BY <2>1, <2>2, <3>1, <3>2 DEF Copied, Loaded, Holding
  <2>7. CASE nth[w] # Len(Fields)
    <3>1. pc'[w] = "snapshot" /\ nth'[w] = nth[w] + 1
      BY <1>t, <2>1, <2>7
    <3> QED BY <2>1, <2>2, <2>5, <3>1 DEF Copied, Loaded, Holding
  <2> QED BY <2>6, <2>7
<1>4. ASSUME NEW w \in Writers, Create(w) PROVE Copied'
  <2>1. PICK i \in Inodes : /\ i # json
                            /\ text' = [text EXCEPT ![i] = [json |-> Torn, size |-> 0]]
                            /\ fd' = [fd EXCEPT ![w] = i] /\ tmp' = i
    BY <1>4, Opened DEF Typed
  <2>2. pc[w] = "create" /\ pc'[w] = "write" /\ UNCHANGED <<mem, snap, lone>>
    BY <1>4, <1>t DEF Create, Goto, History
  <2>3. lone \subseteq {w}
    BY <2>2, OnlyMe
  <2>4. fd'[w] = i /\ text'[i].size = 0
    BY <1>t, <2>1
  <2> QED BY <2>1, <2>2, <2>3, <2>4 DEF Copied, Loaded, Holding
<1>5. ASSUME NEW w \in Writers, Write(w) PROVE Copied'
  <2>1. /\ pc[w] = "write" /\ pc'[w] = "rename" /\ UNCHANGED <<mem, tmp, snap, fd, lone>>
        /\ text' = [text EXCEPT ![fd[w]] = Written(text[fd[w]], snap[w])]
    BY <1>5, <1>t DEF Write, Goto, History, call
  <2>2. lone \subseteq {w}
    BY <2>1, OnlyMe
  <2>3. ASSUME w \in lone PROVE snap[w] = mem /\ fd[w] = tmp /\ tmp \in Inodes /\ text'[tmp].json = mem
    <3>1. snap[w] = mem /\ fd[w] = tmp /\ tmp \in Inodes /\ text[tmp].size = 0
      BY <2>1, <2>3 DEF Copied, Loaded, Holding
    <3>2. text'[tmp] = Written(text[tmp], mem)
      BY <1>t, <2>1, <3>1
    <3>3. text[tmp] \in Text
      BY <1>t, <3>1
    <3> QED BY <1>t, <3>1, <3>2, <3>3, WrittenTyped
  <2> QED BY <2>1, <2>2, <2>3 DEF Copied, Loaded, Holding
<1>6. ASSUME NEW w \in Writers, Rename(w) \/ Fail(w) PROVE Copied'
  <2>1. lone' = {}
    BY <1>6, Ends DEF Rename, Fail
  <2> QED BY <2>1 DEF Copied
<1>7. CASE Restart
  BY <1>7 DEF Restart, Copied
<1>8. CASE UNCHANGED vars
  BY <1>8 DEF vars, file, call, Copied
<1> QED BY <1>1, <1>2, <1>3, <1>4, <1>5, <1>6, <1>7, <1>8 DEF Next, Step

\* What a restart would find after each step of a call.
LEMMA Durable ==
  ASSUME Typed, Alone, Copied, KeptSurvives, CrashIsAtomic, [Next]_vars
  PROVE  KeptSurvives' /\ CrashIsAtomic'
<1>t. /\ text \in [Inodes -> Text] /\ mem \in Snapshots
      /\ pc \in [Writers -> PCs] /\ lone \subseteq Active
      /\ json \in Inodes \cup {None} /\ tmp \in Inodes \cup {None} /\ (json # None => json # tmp)
  BY DEF Typed, TypeOK
\* A step that leaves runtime.json alone.
<1>s. ASSUME UNCHANGED <<bound, json, saved>>, json # None => text'[json] = text[json],
             lone' # {} => (lone # {} /\ base' = base) \/ base' = Content
      PROVE  KeptSurvives' /\ CrashIsAtomic'
  <2>1. Content' = Content /\ (Readable' <=> Readable)
    BY <1>s, SameContent
  <2> QED BY <1>s, <2>1 DEF KeptSurvives, CrashIsAtomic
<1>1. ASSUME NEW w \in Writers, Store(w) PROVE KeptSurvives' /\ CrashIsAtomic'
  BY <1>1, <1>s DEF Store, file
<1>2. ASSUME NEW w \in Writers, Persist(w) PROVE KeptSurvives' /\ CrashIsAtomic'
  BY <1>2, <1>s DEF Persist, file
<1>3. ASSUME NEW w \in Writers, Load(w) PROVE KeptSurvives' /\ CrashIsAtomic'
  BY <1>3, <1>s DEF Load, file, History
<1>4. ASSUME NEW w \in Writers, Create(w) PROVE KeptSurvives' /\ CrashIsAtomic'
  <2>1. PICK i \in Inodes : /\ i # json
                            /\ text' = [text EXCEPT ![i] = [json |-> Torn, size |-> 0]]
    BY <1>4, Opened DEF Typed
  <2>2. json # None => text'[json] = text[json]
    BY <1>t, <2>1
  <2> QED BY <1>4, <1>s, <2>2 DEF Create, History
\* A writer that has runtime.json itself open is not alone, and nothing is saved.
<1>w. ASSUME NEW w \in Writers, pc[w] = "write", NEW new, text' = [text EXCEPT ![fd[w]] = new],
             UNCHANGED <<bound, json, saved>>, lone' # {} => lone # {} /\ base' = base
      PROVE  KeptSurvives' /\ CrashIsAtomic'
  <2>1. CASE fd[w] # json
    BY <1>s, <1>t, <1>w, <2>1
  <2>2. CASE fd[w] = json
    <3>1. saved = None /\ bound
      BY <1>w, <2>2 DEF Alone, Saving
    <3>2. w \notin lone
      BY <1>t, <1>w, <2>2, NameAssumption DEF Copied, Holding
    <3>3. lone = {}
      BY <1>w, <3>2, OnlyMe
    <3> QED BY <1>w, <3>1, <3>3 DEF KeptSurvives, CrashIsAtomic
  <2> QED BY <2>1, <2>2
<1>5. ASSUME NEW w \in Writers, Write(w) PROVE KeptSurvives' /\ CrashIsAtomic'
  BY <1>5, <1>w DEF Write, History
<1>6. ASSUME NEW w \in Writers, Fail(w) PROVE KeptSurvives' /\ CrashIsAtomic'
  <2>1. UNCHANGED <<bound, json, saved>> /\ lone' = {}
    BY <1>6, Ends DEF Fail, End
  <2>2. CASE pc[w] = "write"
    <3>1. PICK t \in Partly(text[fd[w]], snap[w]) : text' = [text EXCEPT ![fd[w]] = t]
      BY <1>6, <2>2 DEF Fail
    <3> QED BY <1>w, <2>1, <2>2, <3>1
  <2>3. CASE pc[w] # "write"
    BY <1>6, <1>s, <2>1, <2>3 DEF Fail
  <2> QED BY <2>2, <2>3
<1>7. ASSUME NEW w \in Writers, Rename(w) PROVE KeptSurvives' /\ CrashIsAtomic'
  <2>1. /\ pc[w] = "rename" /\ Renamed /\ saved' = (IF w \in lone THEN mem ELSE None)
        /\ lone' = {} /\ UNCHANGED <<mem, bound, text>>
    BY <1>7, Ends DEF Rename
  <2>2. bound
    BY <2>1 DEF Alone, Saving
  <2>3. ASSUME w \in lone PROVE Readable' /\ Content' = mem
    <3>1. tmp \in Inodes /\ text[tmp].json = mem
      BY <2>1, <2>3 DEF Copied, Holding
    <3>2. json' = tmp /\ tmp # None /\ mem # Torn /\ mem # None
      BY <1>t, <2>1, <3>1, NameAssumption DEF Renamed
    <3> QED BY <2>1, <3>1, <3>2 DEF Content, Readable
  <2> QED BY <2>1, <2>2, <2>3 DEF KeptSurvives, CrashIsAtomic
<1>8. CASE Restart
  <2>1. /\ bound' = (json = None \/ Readable) /\ saved' = (IF Readable THEN Content ELSE None)
        /\ lone' = {} /\ UNCHANGED <<text, json, tmp>>
    BY <1>8 DEF Restart, Rebind, file
  <2>2. Content' = Content /\ (Readable' <=> Readable)
    BY <2>1 DEF Content, Readable
  <2> QED BY <2>1, <2>2 DEF KeptSurvives, CrashIsAtomic
<1>9. CASE UNCHANGED vars
  BY <1>9, <1>s DEF vars, file
<1> QED BY <1>1, <1>2, <1>3, <1>4, <1>5, <1>6, <1>7, <1>8, <1>9 DEF Next, Step

LEMMA RecentKept ==
  ASSUME Typed, Alone, Copied, Recent, [Next]_vars
  PROVE  Recent'
<1>t. /\ mem \in Snapshots /\ text \in [Inodes -> Text]
      /\ pc \in [Writers -> PCs] /\ snap \in [Writers -> Snapshots]
      /\ nth \in [Writers -> 1 .. Len(Fields) + 1]
      /\ fd \in [Writers -> Inodes \cup {None}] /\ lone \subseteq Active
      /\ json \in Inodes \cup {None} /\ tmp \in Inodes \cup {None} /\ (json # None => json # tmp)
      /\ since \in [Names -> SUBSET Values]
  BY DEF Typed, TypeOK
<1>1. ASSUME NEW w \in Writers, Store(w) PROVE Recent'
  <2>1. PICK f \in Names, v \in Values : /\ mem' = [mem EXCEPT ![f] = v]
                                         /\ since' = [since EXCEPT ![f] = @ \cup {v}]
    BY <1>1 DEF Store
  <2>2. \A g \in Names : since[g] \subseteq since'[g]
    BY <1>t, <2>1
  <2>3. /\ pc' = [pc EXCEPT ![w] = "stored"]
        /\ UNCHANGED <<text, json, tmp, snap, nth>>
    BY <1>1 DEF Store, Goto, file, call
  <2>4. \A x \in Writers : pc'[x] \in Saving => pc'[x] = pc[x]
    BY <1>t, <2>3 DEF Saving
  <2>5. Within(mem)'
    BY <1>t, <2>1 DEF Recent, Within, Snapshots
  <2>6. ASSUME NEW x \in Writers, pc'[x] = "snapshot", NEW i \in 1 .. Len(Fields), i < nth'[x]
        PROVE  snap'[x][Fields[i]] \in since'[Fields[i]]
    <3>1. snap[x][Fields[i]] \in since[Fields[i]] /\ Fields[i] \in Names
      BY <2>3, <2>4, <2>6, FieldNames DEF Recent, Saving
    <3> QED BY <2>2, <2>3, <3>1
  <2>7. \A x \in Writers : pc'[x] \in Loaded => Within(snap[x])'
    BY <2>2, <2>3, <2>4 DEF Recent, Within, Loaded, Saving
  <2>8. (\E x \in Writers : pc'[x] \in Holding) /\ tmp' # None /\ text'[tmp'].json # Torn =>
          Within(text[tmp].json)'
    BY <2>2, <2>3, <2>4 DEF Recent, Within, Holding, Saving
  <2>9. json' # None /\ text'[json'].json # Torn => Within(text[json].json)'
    BY <2>2, <2>3 DEF Recent, Within
  <2> QED BY <2>5, <2>6, <2>7, <2>8, <2>9 DEF Recent
<1>2. ASSUME NEW w \in Writers, Persist(w) PROVE Recent'
  <2>1. /\ UNCHANGED <<mem, text, json, tmp, snap, since>> /\ nth' = [nth EXCEPT ![w] = 1]
        /\ pc' = [pc EXCEPT ![w] = IF bound THEN "snapshot" ELSE "idle"]
    BY <1>2 DEF Persist, Goto, file
  <2>2. /\ pc'[w] \notin Loaded /\ nth'[w] = 1
        /\ \A x \in Writers \ {w} : pc'[x] = pc[x] /\ nth'[x] = nth[x]
    BY <1>t, <2>1 DEF Loaded
  <2>3. \A x \in Writers : pc'[x] = "snapshot" =>
          \A i \in 1 .. Len(Fields) : i < nth'[x] => snap'[x][Fields[i]] \in since'[Fields[i]]
    BY <2>1, <2>2, FieldNames DEF Recent
  <2>4. \A x \in Writers : pc'[x] \in Loaded => x # w /\ pc'[x] = pc[x]
    BY <2>2
  <2> QED BY <2>1, <2>3, <2>4 DEF Recent, Within, Loaded, Holding
<1>3. ASSUME NEW w \in Writers, Load(w) PROVE Recent'
  <2>1. /\ pc[w] = "snapshot" /\ UNCHANGED <<mem, text, json, tmp, since>>
        /\ pc' = [pc EXCEPT ![w] = IF nth[w] = Len(Fields) THEN "create" ELSE "snapshot"]
        /\ nth' = [nth EXCEPT ![w] = nth[w] + 1]
        /\ snap' = [snap EXCEPT ![w][Fields[nth[w]]] = mem[Fields[nth[w]]]]
    BY <1>3, <1>t DEF Load, Goto, History, file
  <2>2. nth[w] \in 1 .. Len(Fields) /\ Len(Fields) \in Nat /\ Fields[nth[w]] \in Names
    BY <1>t, <2>1, FieldNames DEF Typed
  <2>3. /\ snap'[w] = [snap[w] EXCEPT ![Fields[nth[w]]] = mem[Fields[nth[w]]]]
        /\ snap[w] \in Snapshots
        /\ \A x \in Writers \ {w} : snap'[x] = snap[x] /\ pc'[x] = pc[x] /\ nth'[x] = nth[x]
        /\ nth'[w] = nth[w] + 1 /\ pc'[w] \in {"create", "snapshot"}
    BY <1>t, <2>1
  <2>4. ASSUME NEW i \in 1 .. Len(Fields), i < nth[w] + 1
        PROVE  snap'[w][Fields[i]] \in since[Fields[i]]
    <3>1. Fields[i] \in Names
      BY FieldNames
    <3>2. CASE Fields[i] = Fields[nth[w]]
      <4>1. snap'[w][Fields[i]] = mem[Fields[i]]
        BY <2>2, <2>3, <3>2 DEF Snapshots
      <4> QED BY <3>1, <4>1 DEF Recent, Within
    <3>3. CASE Fields[i] # Fields[nth[w]]
      <4>1. i < nth[w]
        BY <2>2, <2>4, <3>3
      <4>2. snap[w][Fields[i]] \in since[Fields[i]]
        BY <2>1, <4>1 DEF Recent
      <4> QED BY <2>3, <3>1, <3>3, <4>2 DEF Snapshots
    <3> QED BY <3>2, <3>3
  <2>5. ASSUME pc'[w] = "create" PROVE \A f \in Names : snap'[w][f] \in since[f]
    <3>1. nth[w] = Len(Fields)
      BY <1>t, <2>1, <2>5
    <3>2. SUFFICES ASSUME NEW f \in Names PROVE snap'[w][f] \in since[f]
      OBVIOUS
    <3>3. PICK i \in 1 .. Len(Fields) : f = Fields[i]
      BY FieldNames
    <3>4. i < nth[w] + 1
      BY <2>2, <3>1
    <3> QED BY <2>4, <3>3, <3>4
  <2>6. \A x \in Writers : pc'[x] = "snapshot" =>
          \A i \in 1 .. Len(Fields) : i < nth'[x] => snap'[x][Fields[i]] \in since'[Fields[i]]
    BY <2>1, <2>3, <2>4 DEF Recent
  <2>7. \A x \in Writers : pc'[x] \in Loaded => Within(snap[x])'
    <3>1. SUFFICES ASSUME NEW x \in Writers, pc'[x] \in Loaded PROVE Within(snap[x])'
      OBVIOUS
    <3>2. CASE x = w
      BY <2>1, <2>3, <2>5, <3>1, <3>2 DEF Loaded, Within
    <3>3. CASE x # w
      BY <2>1, <2>3, <3>1, <3>3 DEF Recent, Within
    <3> QED BY <3>2, <3>3
  <2>8. \A x \in Writers : pc'[x] \in Holding => x # w /\ pc'[x] = pc[x]
    BY <2>3 DEF Holding
  <2> QED BY <2>1, <2>6, <2>7, <2>8 DEF Recent, Within
<1>4. ASSUME NEW w \in Writers, Create(w) PROVE Recent'
  <2>1. PICK i \in Inodes : /\ i # json
                            /\ text' = [text EXCEPT ![i] = [json |-> Torn, size |-> 0]]
                            /\ fd' = [fd EXCEPT ![w] = i] /\ tmp' = i
    BY <1>4, Opened DEF Typed
  <2>2. /\ pc[w] = "create" /\ UNCHANGED <<mem, json, snap, nth, since>>
        /\ \A x \in Writers \ {w} : pc'[x] = pc[x]
        /\ pc'[w] = "write"
    BY <1>4, <1>t DEF Create, Goto, History
  <2>3. text'[tmp'].json = Torn
    BY <1>t, <2>1
  <2>4. json # None => text'[json] = text[json]
    BY <1>t, <2>1
  <2>5. \A x \in Writers : /\ pc'[x] = "snapshot" => pc[x] = "snapshot"
                           /\ pc'[x] \in Loaded => pc[x] \in Loaded
    BY <2>2 DEF Loaded
  <2>6. json' # None /\ text'[json'].json # Torn => Within(text[json].json)'
    BY <2>2, <2>4 DEF Recent, Within
  <2> QED BY <2>2, <2>3, <2>5, <2>6 DEF Recent, Within
<1>5. ASSUME NEW w \in Writers, Write(w) PROVE Recent'
  <2>1. /\ pc[w] = "write" /\ UNCHANGED <<mem, json, tmp, snap, nth, fd, since>>
        /\ text' = [text EXCEPT ![fd[w]] = Written(text[fd[w]], snap[w])]
        /\ \A x \in Writers \ {w} : pc'[x] = pc[x]
        /\ pc'[w] = "rename"
    BY <1>5, <1>t DEF Write, Goto, History, call
  <2>2. Within(snap[w])
    BY <2>1 DEF Recent, Loaded
  <2>3. ASSUME NEW i \in Inodes
        PROVE  text'[i] = text[i] \/ text'[i].json = snap[w] \/ text'[i].json = Torn
    <3>1. CASE i = fd[w]
      BY <1>t, <2>1, <3>1, WrittenTyped
    <3>2. CASE i # fd[w]
      BY <1>t, <2>1, <3>2
    <3> QED BY <3>1, <3>2
  <2>4. tmp' # None /\ text'[tmp'].json # Torn => Within(text[tmp].json)'
    <3>1. SUFFICES ASSUME tmp # None, text'[tmp].json # Torn
                   PROVE  \A f \in Names : text'[tmp].json[f] \in since[f]
      BY <2>1 DEF Within
    <3>2. tmp \in Inodes
      BY <1>t, <3>1
    <3>3. CASE text'[tmp].json = snap[w]
      BY <2>2, <3>3 DEF Within
    <3>4. CASE text'[tmp] = text[tmp]
      BY <2>1, <3>1, <3>4 DEF Recent, Within, Holding
    <3> QED BY <2>3, <3>1, <3>2, <3>3, <3>4
  <2>5. json' # None /\ text'[json'].json # Torn => Within(text[json].json)'
    <3>1. SUFFICES ASSUME json # None, text'[json].json # Torn
                   PROVE  \A f \in Names : text'[json].json[f] \in since[f]
      BY <2>1 DEF Within
    <3>2. json \in Inodes
      BY <1>t, <3>1
    <3>3. CASE text'[json].json = snap[w]
      BY <2>2, <3>3 DEF Within
    <3>4. CASE text'[json] = text[json]
      BY <3>1, <3>4 DEF Recent, Within
    <3> QED BY <2>3, <3>1, <3>2, <3>3, <3>4
  <2>6. \A x \in Writers : /\ pc'[x] = "snapshot" => pc[x] = "snapshot"
                           /\ pc'[x] \in Loaded => pc[x] \in Loaded
    BY <2>1 DEF Loaded
  <2> QED BY <2>1, <2>4, <2>5, <2>6 DEF Recent, Within
<1>6. ASSUME NEW w \in Writers, Rename(w) PROVE Recent'
  <2>1. /\ pc[w] = "rename" /\ Renamed /\ UNCHANGED <<mem, text, snap, nth>>
        /\ \A x \in Writers \ {w} : pc'[x] = pc[x]
        /\ pc'[w] = "idle"
        /\ since' = IF w \in lone THEN Known(mem) ELSE since
    BY <1>6, Ends DEF Rename
  <2>2. tmp' = None
    BY <2>1 DEF Renamed
  <2>3. CASE w \in lone
    <3>1. \A f \in Names : since'[f] = {mem[f]}
      BY <2>1, <2>3 DEF Known
    <3>2. \A x \in Writers : pc'[x] = "idle"
      BY <1>t, <2>1, <2>3 DEF Alone, Active
    <3>3. json' = tmp /\ text[tmp].json = mem
      BY <1>t, <2>1, <2>3, NameAssumption DEF Renamed, Copied, Holding
    <3> QED BY <2>1, <2>2, <3>1, <3>2, <3>3 DEF Recent, Within, Loaded, Holding
  <2>4. CASE w \notin lone
    <3>1. since' = since
      BY <2>1, <2>4
    <3>2. json' # None /\ text'[json'].json # Torn => Within(text[json].json)'
      <4>1. CASE tmp = None
        BY <2>1, <3>1, <4>1 DEF Renamed, Recent, Within
      <4>2. CASE tmp # None
        BY <2>1, <3>1, <4>2 DEF Renamed, Recent, Within, Holding
      <4> QED BY <4>1, <4>2
    <3>3. \A x \in Writers : /\ pc'[x] = "snapshot" => pc[x] = "snapshot"
                             /\ pc'[x] \in Loaded => pc[x] \in Loaded
      BY <2>1 DEF Loaded
    <3> QED BY <2>1, <2>2, <3>1, <3>2, <3>3 DEF Recent, Within
  <2> QED BY <2>3, <2>4
<1>7. CASE Restart
  <2>1. /\ mem' \in Recovered /\ UNCHANGED <<text, json, tmp>>
        /\ \A x \in Writers : pc'[x] = "idle"
        /\ \A f \in Names : since'[f] = {mem'[f]}
    BY <1>7 DEF Restart, Rebind, file, Known
  <2>2. ASSUME json # None, text[json].json # Torn PROVE mem' = text[json].json
    <3>1. text[json].json \in Snapshots
      BY <1>t, <2>2 DEF Text
    <3>2. Readable /\ Content = text[json].json
      BY <2>2, <3>1, NameAssumption DEF Readable, Content
    <3> QED BY <2>1, <3>2 DEF Recovered
  <2> QED BY <2>1, <2>2 DEF Recent, Within, Loaded, Holding
<1>9. ASSUME NEW w \in Writers, Fail(w) PROVE Recent'
  <2>1. /\ UNCHANGED <<mem, json, tmp, snap, nth, since>> /\ pc'[w] = "idle"
        /\ \A x \in Writers \ {w} : pc'[x] = pc[x]
    BY <1>9, Ends DEF Fail
  <2>2. ASSUME NEW i \in Inodes
        PROVE  text'[i] = text[i] \/ text'[i].json = Torn
    <3>1. CASE pc[w] = "write" /\ fd[w] = i
      <4>1. PICK t \in Partly(text[i], snap[w]) : text' = [text EXCEPT ![i] = t]
        BY <1>9, <3>1 DEF Fail
      <4>2. t = text[i] \/ t.json = Torn
        BY <1>t, PartlyTyped
      <4> QED BY <1>t, <4>1, <4>2
    <3>2. CASE pc[w] = "write" /\ fd[w] # i
      BY <1>9, <1>t, <3>2 DEF Fail
    <3>3. CASE pc[w] # "write"
      BY <1>9, <3>3 DEF Fail
    <3> QED BY <3>1, <3>2, <3>3
  <2>3. \A x \in Writers : /\ pc'[x] = "snapshot" => pc[x] = "snapshot"
                           /\ pc'[x] \in Loaded => pc[x] \in Loaded
                           /\ pc'[x] \in Holding => pc[x] \in Holding
    BY <2>1 DEF Loaded, Holding
  <2>4. json # None /\ text'[json].json # Torn => text'[json] = text[json]
    BY <1>t, <2>2
  <2>5. tmp # None /\ text'[tmp].json # Torn => text'[tmp] = text[tmp]
    BY <1>t, <2>2
  <2> QED BY <2>1, <2>3, <2>4, <2>5 DEF Recent, Within
<1>8. CASE UNCHANGED vars
  BY <1>8 DEF vars, file, call, Recent, Within
<1> QED BY <1>1, <1>2, <1>3, <1>4, <1>5, <1>6, <1>7, <1>8, <1>9 DEF Next, Step
-----------------------------------------------------------------------------
LEMMA InvInit == Init => Inv
<1> SUFFICES ASSUME Init PROVE Inv
  OBVIOUS
<1>1. Typed
  BY TypedInit
<1>2. Active = {} /\ Content = None /\ mem \in Snapshots
  BY FieldAssumption DEF Init, Active, Content
<1>3. Alone /\ Copied
  BY <1>2 DEF Init, Alone, Copied, Saving
<1>4. Recent
  BY <1>2 DEF Init, Recent, Within, Known, Loaded, Holding
<1>5. KeptSurvives /\ CrashIsAtomic
  BY <1>2 DEF Init, KeptSurvives, CrashIsAtomic
<1> QED BY <1>1, <1>3, <1>4, <1>5 DEF Inv

LEMMA InvKept == Inv /\ [Next]_vars => Inv'
  BY Typing, AloneKept, CopiedKept, RecentKept, Durable DEF Inv

\* What a call that met no other has renamed into place is what runtime.json holds until
\* the next rename, through overlapping, failing and dying calls; a process whose path is
\* unset never makes a file it could not parse readable again (runtime.rs:221-231, :328-345).
THEOREM RuntimeFileKeptSurvives == Spec => []KeptSurvives
<1>1. Inv => KeptSurvives
  BY DEF Inv
<1> QED BY <1>1, InvInit, InvKept, PTL DEF Spec

\* Until its rename such a call leaves the file as it found it, so that a crash undoes it
\* as a whole (runtime.rs:341-343).
THEOREM RuntimeFileCrashIsAtomic == Spec => []CrashIsAtomic
<1>1. Inv => CrashIsAtomic
  BY DEF Inv
<1> QED BY <1>1, InvInit, InvKept, PTL DEF Spec

\* Calls that overlap in one json.tmp mix each other's changes, but bring back nothing
\* older than the settings last saved by a call that met no other (runtime.rs:278-345).
THEOREM RuntimeFileStaleWithin == Spec => []StaleWithin
<1>1. Inv => StaleWithin
  BY DEF Inv, Recent, Within, StaleWithin, Readable, Content
<1> QED BY <1>1, InvInit, InvKept, PTL DEF Spec
-----------------------------------------------------------------------------
(* The automatic escalation shares no state with the model of the file.   *)

\* What the loop read still holds, as long as the operator has patched nothing since.
LoopCurrent ==
  /\ stage \in {"threshold", "store"} /\ ~patched => cur = rt.level
  /\ stage = "store" /\ ~patched => next = NextLevel(rt.threshold) /\ next # cur

LoopInv == UamTypeOK /\ LoopCurrent

LEMMA LoopRate ==
  ASSUME NEW n \in Nat
  PROVE  n \div Period \in Nat
<1>1. Period \in Nat /\ Period > 0
  BY AutoUamAssumption
<1> QED BY <1>1

\* The level to come is a level, at most one step from the one read.
LEMMA NextIsLevel ==
  ASSUME UamTypeOK, NEW t \in Nat
  PROVE  /\ NextLevel(t) \in Levels
         /\ NextLevel(t) # cur =>
              \/ NextLevel(t) = cur + 1 /\ bps >= t
              \/ NextLevel(t) = cur - 1 /\ bps <= t \div 4
  BY DEF UamTypeOK, Levels, Top, NextLevel

LEMMA TickTyped ==
  ASSUME UamTypeOK, NEW d \in Delays, Tick(d)
  PROVE  UamTypeOK'
<1>1. /\ age \in -Cooldown .. Cooldown /\ d \in Nat /\ Cooldown \in Nat /\ MaxFresh \in Nat
      /\ fresh \in 0 .. MaxFresh
  BY AutoUamAssumption DEF UamTypeOK
<1>2. Least(age + d, Cooldown) \in -Cooldown .. Cooldown
  <2>1. age + d \in Int /\ -Cooldown \in Int /\ -Cooldown <= age + d /\ -Cooldown <= Cooldown
    BY <1>1
  <2>2. ASSUME NEW lo \in Int, lo <= age + d, lo <= Cooldown
        PROVE  Least(age + d, Cooldown) \in lo .. Cooldown
    BY <1>1, <2>1, <2>2 DEF Least
  <2> QED BY <2>1, <2>2
<1>3. fresh \div Period \in Nat
  BY <1>1, LoopRate
<1>4. rt' = rt /\ cur' = cur /\ next' = next /\ jammed' = jammed /\ patched' = FALSE /\ fresh' \in 0 .. MaxFresh
  <2>1. fresh' = 0
    BY DEF Tick
  <2> QED BY <1>1, <2>1 DEF Tick
<1>5. age' \in -Cooldown .. Cooldown
  BY <1>2 DEF Tick
<1>6. stage' \in {"wait", "level", "threshold", "store", "persist", "sweep"} /\ bps' \in Nat
  BY <1>3 DEF Tick, UamTypeOK
<1> QED BY <1>4, <1>5, <1>6 DEF UamTypeOK

LEMMA LoopTyping ==
  ASSUME UamTypeOK, [UamNext]_uam_vars
  PROVE  UamTypeOK'
<1>a. Cooldown \in Nat /\ MaxFresh \in Nat
  BY AutoUamAssumption
<1>z. 0 \in Levels
  BY DEF Levels, Top
<1>1. CASE LoadLevel
  BY <1>1 DEF LoadLevel, UamTypeOK, Settings
<1>2. CASE LoadThreshold
  <2>1. rt.threshold \in Nat
    BY AutoUamAssumption DEF UamTypeOK, Settings
  <2>2. NextLevel(rt.threshold) \in Levels
    BY <2>1, NextIsLevel
  <2> QED BY <1>2, <1>z, <2>2 DEF LoadThreshold, Done, UamTypeOK
<1>3. CASE StoreLevel
  <2>1. rt' \in Settings
    BY <1>3 DEF StoreLevel, UamTypeOK, Settings
  <2> QED BY <1>3, <1>a, <2>1 DEF StoreLevel, UamTypeOK
<1>4. CASE SaveLevel
  BY <1>4, <1>z DEF SaveLevel, Done, UamTypeOK
<1>5. ASSUME NEW d \in Delays, Tick(d) PROVE UamTypeOK'
  BY <1>5, TickTyped
<1>6. CASE Operator
  <2>1. rt' \in Settings
    BY <1>6 DEF Operator, SetLevel, SetSwitch, SetThreshold, Set, UamTypeOK, Settings
  <2>2. patched' = TRUE /\ UNCHANGED <<fresh, loop, jammed>>
    BY <1>6 DEF Operator, SetLevel, SetSwitch, SetThreshold, Set
  <2> QED BY <2>1, <2>2 DEF UamTypeOK, loop
<1>7. CASE Blocked
  <2>1. PICK n \in Bursts : fresh' = Least(fresh + n, MaxFresh)
    BY <1>7 DEF Blocked
  <2>2. n \in Nat /\ fresh \in 0 .. MaxFresh
    BY AutoUamAssumption DEF UamTypeOK
  <2>3. Least(fresh + n, MaxFresh) \in 0 .. MaxFresh
    BY <1>a, <2>2 DEF Least
  <2> QED BY <1>7, <2>1, <2>3 DEF Blocked, UamTypeOK, loop
<1>8. CASE ClockSet
  <2>1. age' \in -Cooldown .. Cooldown
    BY <1>8, AutoUamAssumption DEF ClockSet
  <2> QED BY <1>8, <2>1 DEF ClockSet, UamTypeOK
<1>9. CASE UamRestart
  <2>1. rt' \in Settings /\ fresh' \in 0 .. MaxFresh /\ age' \in -Cooldown .. Cooldown
    BY <1>9, <1>a DEF UamRestart
  <2> QED BY <1>9, <1>z, <2>1 DEF UamRestart, Done, UamTypeOK
<1>10. CASE GcTick \/ GcDone
  BY <1>10 DEF GcTick, GcDone, UamTypeOK
<1>11. CASE Ban \/ UNCHANGED uam_vars
  BY <1>11 DEF Ban, uam_vars, loop, UamTypeOK
<1> QED BY <1>1, <1>2, <1>3, <1>4, <1>5, <1>6, <1>7, <1>8, <1>9, <1>10, <1>11 DEF UamNext, LoopStep

LEMMA LoopTypedInit ==
  ASSUME UamInit
  PROVE  UamTypeOK
<1>1. Cooldown \in -Cooldown .. Cooldown /\ 0 \in 0 .. MaxFresh /\ 0 \in Levels
  BY AutoUamAssumption DEF Levels, Top
<1> QED BY <1>1 DEF UamInit, Rested, UamTypeOK

\* The loop's state is what its declarations say (admin.rs:126-131, state.rs's settings),
\* and no round computes a level that does not exist.
THEOREM AutoUamTypeOK == UamSpec => []UamTypeOK
  BY LoopTypedInit, LoopTyping, PTL DEF UamSpec
-----------------------------------------------------------------------------
LEMMA LoopCurrentKept ==
  ASSUME LoopInv, [UamNext]_uam_vars
  PROVE  LoopCurrent'
<1>1. CASE LoadLevel
  BY <1>1 DEF LoadLevel, LoopCurrent
<1>2. CASE LoadThreshold
  BY <1>2 DEF LoadThreshold, Done, LoopInv, LoopCurrent, NextLevel
<1>3. CASE StoreLevel
  BY <1>3 DEF StoreLevel, LoopCurrent
<1>4. CASE SaveLevel \/ UamRestart
  BY <1>4 DEF SaveLevel, UamRestart, Done, LoopCurrent
<1>5. ASSUME NEW d \in Delays, Tick(d) PROVE LoopCurrent'
  <2>1. stage = "wait" /\ stage' \in {"wait", "level"}
    BY <1>5 DEF Tick
  <2> QED BY <2>1 DEF LoopCurrent
<1>6. CASE Operator
  <2>1. patched' = TRUE
    BY <1>6 DEF Operator, SetLevel, SetSwitch, SetThreshold, Set
  <2> QED BY <2>1 DEF LoopCurrent
<1>7. CASE Blocked \/ Ban \/ ClockSet \/ UNCHANGED uam_vars
  <2>1. UNCHANGED <<rt, stage, bps, cur, next, patched>>
    BY <1>7 DEF Blocked, Ban, ClockSet, uam_vars, loop
  <2> QED BY <2>1 DEF LoopInv, LoopCurrent, NextLevel
<1>8. CASE GcTick \/ GcDone
  BY <1>8 DEF GcTick, GcDone, LoopCurrent
<1> QED BY <1>1, <1>2, <1>3, <1>4, <1>5, <1>6, <1>7, <1>8 DEF UamNext, LoopStep

LEMMA StoreMoves ==
  ASSUME LoopInv, StoreLevel, ~patched
  PROVE  \/ rt'.level = rt.level + 1 /\ bps >= rt.threshold
         \/ rt'.level = rt.level - 1 /\ bps <= rt.threshold \div 4
<1>1. rt \in Settings /\ rt.threshold \in Nat
  BY AutoUamAssumption DEF LoopInv, UamTypeOK, Settings
<1>2. rt'.level = next
  BY <1>1 DEF StoreLevel, Settings
<1>3. cur = rt.level /\ next = NextLevel(rt.threshold) /\ next # cur
  BY DEF StoreLevel, LoopInv, LoopCurrent
<1>4. \/ next = cur + 1 /\ bps >= rt.threshold
      \/ next = cur - 1 /\ bps <= rt.threshold \div 4
  BY <1>1, <1>3, NextIsLevel DEF LoopInv
<1> QED BY <1>2, <1>3, <1>4

\* Between load and store of the level (admin.rs:152-166) nothing but a patch can make
\* the step the loop takes one that the settings in force would not have it take.
THEOREM AutoUamMovesWithLoad == UamSpec => MovesWithLoad
<1>1. UamInit => LoopInv
  BY LoopTypedInit DEF UamInit, Rested, LoopInv, LoopCurrent
<1>2. LoopInv /\ [UamNext]_uam_vars => LoopInv'
  BY LoopTyping, LoopCurrentKept DEF LoopInv
<1>3. LoopInv /\ [UamNext]_uam_vars =>
        [StoreLevel /\ ~patched =>
           \/ rt'.level = rt.level + 1 /\ bps >= rt.threshold
           \/ rt'.level = rt.level - 1 /\ bps <= rt.threshold \div 4]_uam_vars
  BY StoreMoves
<1> QED BY <1>1, <1>2, <1>3, PTL DEF UamSpec, MovesWithLoad
=============================================================================

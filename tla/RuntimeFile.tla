---------------------------- MODULE RuntimeFile -----------------------------
(***************************************************************************)
(* waf-core/src/runtime.rs: the settings the operator may change while the *)
(* program runs, and their dump to runtime.json.                           *)
(*                                                                         *)
(* Two threads change settings: the admin server's, one request at a time, *)
(* and the automatic escalation's (waf-proxy/src/admin.rs).  A call stores *)
(* one field after the other and then persists: it loads every field of    *)
(* the snapshot on its own, writes json.tmp and renames it over            *)
(* runtime.json.  Nothing keeps the two threads apart, and both use the    *)
(* same json.tmp, so files are modelled as the file system has them: names *)
(* link to inodes, a writer keeps its inode when the name moves, and a     *)
(* write over longer text leaves the tail of that text.                    *)
(*                                                                         *)
(* A step on the files may fail; the callers ignore that and report the    *)
(* change as made.  The process may die at any step and start again from   *)
(* runtime.json.                                                           *)
(***************************************************************************)
EXTENDS Integers, Sequences, SequencesExt, FiniteSets

CONSTANTS
  Writers,     \* the threads that change settings
  Fields,      \* the persisted fields, in the order snapshot loads them
  Values,      \* values a field may hold
  Defaults,    \* what Runtime::from_config may give: the token is generated anew
  Size,        \* [Snapshots -> Nat]: the length of the JSON of a snapshot
  Inodes,
  MaxStores,   \* model bound: fields stored
  MaxCrashes,  \* model bound: restarts
  MaxFaults,   \* model bound: file operations that fail
  None, Torn   \* no file; text that is not JSON

Names     == ToSet(Fields)
Snapshots == [Names -> Values]
Text      == [json : Snapshots \cup {Torn}, size : Nat]
PCs       == {"idle", "stored", "snapshot", "create", "write", "rename"}

ASSUME FieldAssumption == /\ Fields \in Seq(STRING) /\ Fields # <<>>
                          /\ Defaults \subseteq Snapshots /\ Defaults # {}
                          /\ Size \in [Snapshots -> Nat]
ASSUME NameAssumption == None \notin Inodes \cup Snapshots /\ Torn \notin Snapshots
ASSUME InodeAssumption == IsFiniteSet(Writers) /\ IsFiniteSet(Inodes)
                          /\ Cardinality(Inodes) > Cardinality(Writers) + 1
ASSUME BoundAssumption == MaxStores \in Nat /\ MaxCrashes \in Nat /\ MaxFaults \in Nat

VARIABLES
  mem,       \* the settings in force
  bound,     \* persist_path is set
  text,      \* what each inode holds
  json, tmp, \* the inodes that runtime.json and json.tmp name
  pc,        \* the step each writer is at
  snap,      \* the snapshot it has loaded so far
  nth,       \* the field it loads next
  fd,        \* the inode it has open
  stores, crashes, faults,
  lone,      \* history: writers whose call has met no other call
  saved,     \* history: what the last rename put in place, if of a lone call; what a start found
  base,      \* history: what runtime.json held when a lone call began
  since      \* history: the values each field has had since the last such rename or start

file == <<text, json, tmp>>
call == <<snap, nth, fd>>
vars == <<mem, bound, file, pc, call, stores, crashes, faults, lone, saved, base, since>>

Active     == { w \in Writers : pc[w] # "idle" }
Content    == IF json = None THEN None ELSE text[json].json
Readable   == Content \notin {None, Torn}
\* What bind_persist_file may make of runtime.json.
Recovered  == IF Readable THEN {Content} ELSE Defaults
Goto(w, p) == pc' = [pc EXCEPT ![w] = p]
History    == <<stores, crashes, faults, lone, saved, base, since>>
Known(s)   == [f \in Names |-> {s[f]}]

Init ==
  /\ text = [i \in Inodes |-> [json |-> Torn, size |-> 0]]
  /\ json = None /\ tmp = None
  /\ mem \in Defaults /\ bound = TRUE
  /\ pc = [w \in Writers |-> "idle"]
  /\ snap = [w \in Writers |-> mem] /\ nth = [w \in Writers |-> 1]
  /\ fd = [w \in Writers |-> None]
  /\ stores = 0 /\ crashes = 0 /\ faults = 0
  /\ lone = {} /\ saved = None /\ base = None
  /\ since = Known(mem)

\* One field of a patch, or the one field of another call.
Store(w) ==
  /\ pc[w] \in {"idle", "stored"} /\ stores < MaxStores
  /\ \E f \in Names, v \in Values : /\ mem' = [mem EXCEPT ![f] = v]
                                    /\ since' = [since EXCEPT ![f] = @ \cup {v}]
  /\ Goto(w, "stored")
  /\ stores' = stores + 1
  /\ IF pc[w] = "stored" THEN UNCHANGED <<lone, base>>
     ELSE /\ lone' = IF Active = {} THEN {w} ELSE {}
          /\ base' = Content
  /\ UNCHANGED <<bound, file, call, crashes, faults, saved>>

\* persist gives up when there is no path.
Persist(w) ==
  /\ pc[w] = "stored"
  /\ nth' = [nth EXCEPT ![w] = 1]
  /\ Goto(w, IF bound THEN "snapshot" ELSE "idle")
  /\ lone' = IF bound THEN lone ELSE lone \ {w}
  /\ UNCHANGED <<mem, bound, file, snap, fd, stores, crashes, faults, saved, base, since>>

LoadMost(w) ==     \* mutant: the snapshot forgets its last field
  /\ pc[w] = "snapshot"
  /\ snap' = IF nth[w] = Len(Fields) THEN snap
             ELSE [snap EXCEPT ![w][Fields[nth[w]]] = mem[Fields[nth[w]]]]
  /\ nth' = [nth EXCEPT ![w] = @ + 1]
  /\ Goto(w, IF nth[w] = Len(Fields) THEN "create" ELSE "snapshot")
  /\ UNCHANGED <<mem, bound, file, fd, History>>
Load(w) ==
  /\ pc[w] = "snapshot"
  /\ snap' = [snap EXCEPT ![w][Fields[nth[w]]] = mem[Fields[nth[w]]]]
  /\ nth' = [nth EXCEPT ![w] = @ + 1]
  /\ Goto(w, IF nth[w] = Len(Fields) THEN "create" ELSE "snapshot")
  /\ UNCHANGED <<mem, bound, file, fd, History>>

\* fs::write opens json.tmp: an existing file is emptied, whoever writes it.
Unused == Inodes \ ({json, tmp} \cup { fd[v] : v \in Active })
CreateInPlace(w) ==     \* mutant: the file itself is rewritten
  /\ pc[w] = "create"
  /\ \E i \in IF json = None THEN Unused ELSE {json} :
       /\ text' = [text EXCEPT ![i] = [json |-> Torn, size |-> 0]]
       /\ fd' = [fd EXCEPT ![w] = i]
       /\ json' = i
  /\ Goto(w, "write")
  /\ UNCHANGED <<mem, bound, tmp, snap, nth, History>>
Create(w) ==
  /\ pc[w] = "create"
  /\ \E i \in IF tmp = None THEN {CHOOSE u \in Unused : TRUE} ELSE {tmp} :
       /\ text' = [text EXCEPT ![i] = [json |-> Torn, size |-> 0]]
       /\ fd' = [fd EXCEPT ![w] = i]
       /\ tmp' = i
  /\ Goto(w, "write")
  /\ UNCHANGED <<mem, bound, json, snap, nth, History>>

\* Text written over a longer one keeps the tail of it.
Written(old, s) == IF old.size <= Size[s] THEN [json |-> s, size |-> Size[s]]
                   ELSE [json |-> Torn, size |-> old.size]
Write(w) ==
  /\ pc[w] = "write"
  /\ text' = [text EXCEPT ![fd[w]] = Written(@, snap[w])]
  /\ Goto(w, "rename")
  /\ UNCHANGED <<mem, bound, json, tmp, call, History>>

\* A call is over, with whatever it has open.
End(w) == /\ Goto(w, "idle") /\ fd' = [fd EXCEPT ![w] = None]
          /\ lone' = lone \ {w}
          /\ UNCHANGED <<mem, bound, snap, nth, stores, crashes, base>>

\* The rename of a name that is gone fails, and the callers ignore it.
RenamedNot == UNCHANGED <<json, tmp>>     \* mutant: the new file is never put in place
RenamedCopy ==     \* mutant: a link instead of a rename
  IF tmp = None THEN UNCHANGED <<json, tmp>> ELSE json' = tmp /\ UNCHANGED tmp
Renamed == IF tmp = None THEN UNCHANGED <<json, tmp>> ELSE json' = tmp /\ tmp' = None
Rename(w) ==
  /\ pc[w] = "rename"
  /\ Renamed /\ End(w)
  /\ saved' = IF w \in lone THEN mem ELSE None
  /\ since' = IF w \in lone THEN Known(mem) ELSE since
  /\ UNCHANGED <<text, faults>>

\* So does the failure of any other step: json.tmp cannot be opened, written only in
\* part, or not renamed.
Partly(old, s) == {old} \cup { [json |-> Torn, size |-> n] : n \in {old.size} \cup old.size .. Size[s] - 1 }
Fail(w) ==
  /\ pc[w] \in {"create", "write", "rename"}
  /\ faults < MaxFaults /\ faults' = faults + 1
  /\ IF pc[w] = "write" THEN \E t \in Partly(text[fd[w]], snap[w]) : text' = [text EXCEPT ![fd[w]] = t]
                        ELSE UNCHANGED text
  /\ End(w)
  /\ UNCHANGED <<json, tmp, saved, since>>

\* The process dies and main binds the file again.  A file that does not parse is
\* reported and the path stays unset: the program runs on defaults and saves nothing.
Rebind == mem' \in Recovered /\ bound' = (json = None \/ Readable)
Restart ==
  /\ crashes < MaxCrashes /\ crashes' = crashes + 1
  /\ Rebind
  /\ pc' = [w \in Writers |-> "idle"] /\ fd' = [w \in Writers |-> None]
  /\ lone' = {} /\ saved' = IF Readable THEN Content ELSE None
  /\ since' = Known(mem')
  /\ UNCHANGED <<file, snap, nth, stores, faults, base>>

Step(w) == Persist(w) \/ Load(w) \/ Create(w) \/ Write(w) \/ Rename(w) \/ Fail(w)
Next == (\E w \in Writers : Store(w) \/ Step(w)) \/ Restart
Spec == Init /\ [][Next]_vars
-----------------------------------------------------------------------------
TypeOK ==
  /\ mem \in Snapshots /\ bound \in BOOLEAN
  /\ text \in [Inodes -> Text] /\ json \in Inodes \cup {None} /\ tmp \in Inodes \cup {None}
  /\ json # None => json # tmp
  /\ pc \in [Writers -> PCs]
  /\ snap \in [Writers -> Snapshots] /\ nth \in [Writers -> 1 .. Len(Fields) + 1]
  /\ fd \in [Writers -> Inodes \cup {None}]
  /\ stores \in 0 .. MaxStores /\ crashes \in 0 .. MaxCrashes /\ faults \in 0 .. MaxFaults
  /\ lone \subseteq Active /\ saved \in Snapshots \cup {None}
  /\ base \in Snapshots \cup {Torn, None}
  /\ since \in [Names -> SUBSET Values]

(* The settings that a call which met no other has renamed into place are  *)
(* what runtime.json holds, whole, and so what a restart at any moment     *)
(* reloads, until another rename: whatever other calls begin, overlap,     *)
(* fail on the way or die with the process.  A call one of whose file      *)
(* operations fails saves nothing, though it reports success.  Nor does    *)
(* any call of a process that started from a file it could not parse: its  *)
(* path is unset (runtime.rs:223-228), that file stays as it is, and the   *)
(* next restart falls back on defaults again.                              *)
KeptSurvives == IF bound THEN saved # None => Readable /\ Content = saved
                         ELSE json # None /\ ~Readable

(* "Write-then-rename for atomicity": up to its rename a call that met no  *)
(* other leaves runtime.json as it found it, whatever that was; dying      *)
(* there, or failing, loses the whole call, never a part of it.            *)
CrashIsAtomic == lone # {} => Content = base

(* Calls that overlap may mix or lose each other's changes, but what they  *)
(* leave in a readable runtime.json is never older than what was last      *)
(* saved by a call that met no other, or found at the start.               *)
StaleWithin == Active = {} /\ bound /\ Readable =>
                 \A f \in Names : Content[f] \in since[f]

(* runtime.rs:4-5 says "Persisted to `runtime.json` next to the main       *)
(* config so changes survive restarts": with no call in progress a restart *)
(* comes back with the settings that were in force.                        *)
ChangesSurvive == [][crashes' > crashes /\ Active = {} => mem' = mem]_vars
=============================================================================

----------------------------- MODULE UserData ------------------------------
(***************************************************************************)
(* The player's files across launches: their migration into userdata/       *)
(* (utils/data_layout.c), which a crash may cut off anywhere, and, in the    *)
(* running game, the configuration store of java.c, a table that is loaded  *)
(* from config.kv at its first use and rewritten there in place.            *)
(*                                                                         *)
(* Data abstracted: a file is one of the player's copies, config.kv the      *)
(* sequence of its lines <<key, value>>, Cut a value whose end is missing.   *)
(* The kept names (keep_at_root) are not among Files.                       *)
(***************************************************************************)
EXTENDS Integers, Sequences, FiniteSets

CONSTANTS
  Threads, Files, Config,
  TopCopies,    \* the states the player's top folder and userdata/ may have
  UserCopies,   \* before the first launch
  Keys, Values, Cut,
  CFG_MAX,
  Absent

ASSUME UserDataAssumption ==
  /\ Config \in Files /\ CFG_MAX \in Nat \ {0}
  /\ Absent \notin Threads \cup Values \cup {Cut} /\ Cut \notin Values

\* No key is in two lines.
IsTable(lines) ==
  /\ lines \in Seq(Keys \X (Values \cup {Cut}))
  /\ \A i, j \in DOMAIN lines : lines[i][1] = lines[j][1] => i = j

\* A config.kv from before is one the game wrote; a file that is in both folders
\* is there in two copies.
ASSUME CopiesAssumption ==
  /\ ~IsTable(Absent)
  /\ \A c \in TopCopies \cup UserCopies :
       DOMAIN c = Files /\ (c[Config] # Absent => IsTable(c[Config]))
  /\ \A c \in TopCopies, d \in UserCopies, f \in Files : c[f] = d[f] => c[f] = Absent

VARIABLES
  launch,       \* "off", "move", "stamp" or "game"
  marker,       \* .layout-v1: "none", "torn" or "done"
  top, userdata, \* the two folders
  original,     \* history: the copies the player has of a file
  locked,       \* the holder of g_cfg_lock
  loaded, table, \* g_cfg_loaded, g_cfg_keys with g_cfg_vals
  at, req,      \* where a thread's call is, and what it asks for
  answer,       \* of cfg_get
  store,        \* history: what was written last
  saved         \* history: the file has it

fileVars == <<marker, top, userdata, original>>
callVars == <<locked, loaded, table, at, req, answer>>
vars == <<launch, fileVars, callVars, store, saved>>

Copies(f) == {top[f], userdata[f]} \ {Absent}
NoRequest == [what |-> "none", key |-> Absent, value |-> Absent]

-----------------------------------------------------------------------------
(* pvz2_prepare_userdata.                                                   *)

Lines(file) == IF file = Absent THEN <<>>
               ELSE SubSeq(file, 1, IF Len(file) > CFG_MAX THEN CFG_MAX ELSE Len(file))
Index(lines, k) == {i \in DOMAIN lines : lines[i][1] = k}
Value(lines, k) == IF Index(lines, k) = {} THEN Absent
                   ELSE lines[CHOOSE i \in Index(lines, k) : TRUE][2]
OnDisk == [k \in Keys |-> Value(Lines(userdata[Config]), k)]

\* What the last game could not save is what the file has.
BeginGame ==
  /\ launch' = "game"
  /\ store' = IF saved THEN store ELSE OnDisk
  /\ saved' = TRUE

\* Without a complete marker the migration starts, or goes on.
Launch ==
  /\ launch = "off"
  /\ IF marker = "done" THEN BeginGame ELSE launch' = "move" /\ UNCHANGED <<store, saved>>
  /\ UNCHANGED <<fileVars, callVars>>

\* Mutant: the other copy is not looked for.
MoveOver(f) ==
  /\ launch = "move" /\ top[f] # Absent
  /\ userdata' = [userdata EXCEPT ![f] = top[f]]
  /\ top' = [top EXCEPT ![f] = Absent]
  /\ UNCHANGED <<launch, marker, original, callVars, store, saved>>

Move(f) ==
  /\ launch = "move" /\ top[f] # Absent /\ userdata[f] = Absent
  /\ userdata' = [userdata EXCEPT ![f] = top[f]]
  /\ top' = [top EXCEPT ![f] = Absent]
  /\ UNCHANGED <<launch, marker, original, callVars, store, saved>>

\* Two copies are reported, and the game does not start.
Conflict(f) ==
  /\ launch = "move" /\ top[f] # Absent /\ userdata[f] # Absent
  /\ launch' = "off"
  /\ UNCHANGED <<fileVars, callVars, store, saved>>

\* fopen of the marker, which empties it.
OpenMarker ==
  /\ launch = "move" /\ \A f \in Files : top[f] = Absent
  /\ marker' = "torn"
  /\ launch' = "stamp"
  /\ UNCHANGED <<top, userdata, original, callVars, store, saved>>

Stamp ==
  /\ launch = "stamp"
  /\ marker' = "done"
  /\ BeginGame
  /\ UNCHANGED <<top, userdata, original, callVars>>

\* A step fails; fclose may fail after the marker is there.
PrepareFails ==
  /\ launch \in {"move", "stamp"}
  /\ marker' = marker \/ (launch = "stamp" /\ marker' = "done")
  /\ launch' = "off"
  /\ UNCHANGED <<top, userdata, original, callVars, store, saved>>

\* The player removes one of two copies, as the report asks for.
Resolve(f) ==
  /\ launch = "off" /\ top[f] # Absent /\ userdata[f] # Absent
  /\ \/ top' = [top EXCEPT ![f] = Absent] /\ UNCHANGED userdata
     \/ userdata' = [userdata EXCEPT ![f] = Absent] /\ UNCHANGED top
  /\ original' = [original EXCEPT ![f] = {top'[f], userdata'[f]} \ {Absent}]
  /\ UNCHANGED <<launch, marker, callVars, store, saved>>

-----------------------------------------------------------------------------
(* The configuration store.                                                 *)

Goto(t, label) == at' = [at EXCEPT ![t] = label]
Step(t, from, to) == at[t] = from /\ Goto(t, to) /\ UNCHANGED <<launch, marker, top, original>>

Requests == [what : {"set"}, key : Keys, value : Values]
              \cup [what : {"get", "erase"}, key : Keys, value : {Absent}]

\* Mutant: calls do not wait for each other.
LockUnchecked(t) ==
  /\ launch = "game"
  /\ locked' = t
  /\ \E r \in Requests : req' = [req EXCEPT ![t] = r]
  /\ Step(t, "idle", "load")
  /\ UNCHANGED <<userdata, loaded, table, answer, store, saved>>

Lock(t) ==
  /\ launch = "game" /\ locked = Absent
  /\ locked' = t
  /\ \E r \in Requests : req' = [req EXCEPT ![t] = r]
  /\ Step(t, "idle", "load")
  /\ UNCHANGED <<userdata, loaded, table, answer, store, saved>>

IsLoaded(t) ==
  /\ loaded /\ Step(t, "load", "do")
  /\ UNCHANGED <<userdata, locked, loaded, table, req, answer, store, saved>>

BeginLoad(t) ==
  /\ ~loaded /\ Step(t, "load", "read")
  /\ loaded' = TRUE
  /\ UNCHANGED <<userdata, locked, table, req, answer, store, saved>>

ReadFile(t) ==
  /\ Step(t, "read", "do")
  /\ table' = Lines(userdata[Config])
  /\ UNCHANGED <<userdata, locked, loaded, req, answer, store, saved>>

\* A file that cannot be opened counts as missing, and the next save replaces it.
ReadFails(t) ==
  /\ Step(t, "read", "do")
  /\ store' = [k \in Keys |-> Absent]
  /\ saved' = FALSE
  /\ UNCHANGED <<userdata, locked, loaded, table, req, answer>>

cfg_get(t) ==
  /\ req[t].what = "get" /\ Step(t, "do", "unlock")
  /\ answer' = [answer EXCEPT ![t] = Value(table, req[t].key)]
  /\ UNCHANGED <<userdata, locked, loaded, table, req, store, saved>>

cfg_set(t) ==
  LET k == req[t].key
      line == <<k, req[t].value>>
  IN /\ req[t].what = "set" /\ Step(t, "do", "save")
     /\ \/ \E i \in Index(table, k) : table' = [table EXCEPT ![i] = line]
        \/ Index(table, k) = {} /\ Len(table) < CFG_MAX /\ table' = Append(table, line)
     /\ store' = [store EXCEPT ![k] = req[t].value] /\ saved' = FALSE
     /\ UNCHANGED <<userdata, locked, loaded, req, answer>>

\* The last line takes the place of the one erased.
cfg_erase(t) ==
  LET last == Len(table) IN
  /\ req[t].what = "erase" /\ Step(t, "do", "save")
  /\ \E i \in Index(table, req[t].key) :
       table' = SubSeq([table EXCEPT ![i] = table[last]], 1, last - 1)
  /\ store' = [store EXCEPT ![req[t].key] = Absent] /\ saved' = FALSE
  /\ UNCHANGED <<userdata, locked, loaded, req, answer>>

NothingToDo(t) ==
  /\ Index(table, req[t].key) = {}
  /\ req[t].what = "erase" \/ (req[t].what = "set" /\ Len(table) = CFG_MAX)
  /\ Step(t, "do", "unlock")
  /\ UNCHANGED <<userdata, locked, loaded, table, req, answer, store, saved>>

\* cfg_save_locked: the file is emptied, then written; any part of it may be
\* there when the game stops, and the last line may be cut.
Saves(t, lines, done) ==
  /\ userdata' = [userdata EXCEPT ![Config] = lines]
  /\ saved' = done
  /\ UNCHANGED <<locked, loaded, table, req, answer, store>>

OpenFails(t) == Step(t, "save", "unlock") /\ Saves(t, userdata[Config], FALSE)
OpenSave(t) == Step(t, "save", "write") /\ Saves(t, <<>>, FALSE)
WriteSome(t) ==
  /\ userdata[Config] = <<>> /\ Step(t, "write", "write")
  /\ \E n \in 1 .. Len(table), v \in Values \cup {Cut} :
       /\ v \in {table[n][2], Cut}
       /\ Saves(t, Append(SubSeq(table, 1, n - 1), <<table[n][1], v>>), FALSE)
WriteAll(t) == Step(t, "write", "unlock") /\ Saves(t, table, TRUE)
WriteFails(t) == Step(t, "write", "unlock") /\ Saves(t, userdata[Config], FALSE)

Unlock(t) ==
  /\ Step(t, "unlock", "idle")
  /\ locked' = Absent
  /\ req' = [req EXCEPT ![t] = NoRequest]
  /\ answer' = [answer EXCEPT ![t] = Absent]
  /\ UNCHANGED <<userdata, loaded, table, store, saved>>

Call(t) ==
  \/ Lock(t) \/ IsLoaded(t) \/ BeginLoad(t) \/ ReadFile(t) \/ ReadFails(t)
  \/ cfg_get(t) \/ cfg_set(t) \/ cfg_erase(t) \/ NothingToDo(t)
  \/ OpenFails(t) \/ OpenSave(t) \/ WriteSome(t) \/ WriteAll(t) \/ WriteFails(t)
  \/ Unlock(t)

-----------------------------------------------------------------------------
(* The game stops, at any time.                                             *)

Stop ==
  /\ launch # "off"
  /\ launch' = "off"
  /\ locked' = Absent /\ loaded' = FALSE /\ table' = <<>>
  /\ at' = [t \in Threads |-> "idle"] /\ req' = [t \in Threads |-> NoRequest]
  /\ answer' = [t \in Threads |-> Absent]
  /\ UNCHANGED <<fileVars, store, saved>>

Init ==
  /\ launch = "off" /\ marker = "none"
  /\ top \in TopCopies /\ userdata \in UserCopies
  /\ original = [f \in Files |-> Copies(f)]
  /\ locked = Absent /\ loaded = FALSE /\ table = <<>>
  /\ at = [t \in Threads |-> "idle"] /\ req = [t \in Threads |-> NoRequest]
  /\ answer = [t \in Threads |-> Absent]
  /\ store = [k \in Keys |-> Absent] /\ saved = FALSE

Next ==
  \/ Launch \/ OpenMarker \/ Stamp \/ PrepareFails \/ Stop
  \/ \E f \in Files : Move(f) \/ Conflict(f) \/ Resolve(f)
  \/ \E t \in Threads : Call(t)

Spec == Init /\ [][Next]_vars

-----------------------------------------------------------------------------
TypeOK ==
  /\ launch \in {"off", "move", "stamp", "game"} /\ marker \in {"none", "torn", "done"}
  /\ DOMAIN top = Files /\ DOMAIN userdata = Files
  /\ locked \in Threads \cup {Absent} /\ loaded \in BOOLEAN /\ Len(table) =< CFG_MAX
  /\ at \in [Threads -> {"idle", "load", "read", "do", "save", "write", "unlock"}]
  /\ req \in [Threads -> Requests \cup {NoRequest}]
  /\ answer \in [Threads -> Values \cup {Cut, Absent}]
  /\ store \in [Keys -> Values \cup {Cut, Absent}] /\ saved \in BOOLEAN

\* However often the migration is cut off, every copy the player has is there,
\* two of a file only if there were two, which are never merged; and the game
\* runs only with all of them in userdata/ (data_layout.c:1-3).
NothingIsLost ==
  /\ TypeOK
  /\ \A f \in Files :
       /\ marker # "done" \/ f # Config => Copies(f) = original[f]
       /\ Absent \notin {top[f], userdata[f]} => Cardinality(original[f]) = 2
       /\ marker = "done" => top[f] = Absent

\* A read, by any thread and also the first, returns what was written last, in
\* this launch or an earlier one, unless the save failed or was cut off, or the
\* first fopen of the launch failed, after which the preferences count as empty
\* (ReadFails); and what was saved is what the file has (java.c:688-690).
ReadsLastWrite ==
  /\ \A t \in Threads :
       at[t] = "unlock" /\ req[t].what = "get" => answer[t] = store[req[t].key]
  /\ saved /\ launch = "game" /\ locked = Absent => OnDisk = store
=============================================================================

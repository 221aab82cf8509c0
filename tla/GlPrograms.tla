----------------------------- MODULE GlPrograms -----------------------------
(***************************************************************************)
(* The uniform wrappers of utils/glutil.c and utils/sprite_uniforms.h.  An   *)
(* upload of what a program has already is skipped: for the colors and      *)
(* samplers of sprites in a small associative cache, for the one matrix of   *)
(* a program in its mat4 state, which also keeps the location of that matrix *)
(* and the last finite value, to repair one that is not.  Names of programs  *)
(* are recycled, and a link changes the locations.                          *)
(*                                                                         *)
(* GL has one context, so a call is one step.  The game sets uniforms with   *)
(* the function of their type; a matrix it may set at the location another   *)
(* program has it at.  One bucket of the cache is modelled, which all        *)
(* uniforms share.  The shortcut to the state used last is left out.        *)
(***************************************************************************)
EXTENDS Integers, FiniteSets

CONSTANTS
  Programs, Locations, None,
  Layouts,      \* the types a link may give the locations
  Ways,         \* entries of a bucket
  States,       \* the slots of g_mat4_program_state, 0 .. n - 1
  StateHome,    \* program % MAT4_PROGRAM_STATE_CAP
  Values        \* finite values; -v is the mirror image of the matrix v

Bad == 0        \* Inf or NaN
Unset == 99     \* what a link leaves

VARIABLES
  layout,       \* of each program; None while it is not there
  uniform,      \* what the driver has
  wanted,       \* history: what it had without the caches
  current,      \* the program in use
  sprites,      \* the entries of the bucket
  victim,       \* sprite_uniform_victim
  states        \* g_mat4_program_state

driverVars == <<layout, current>>
vars == <<layout, uniform, wanted, current, sprites, victim, states>>

NoSprite == [program |-> None, location |-> None, kind |-> "none", have |-> FALSE, value |-> Bad]
NoState == [program |-> None, sole |-> None, cached |-> FALSE, finite |-> Bad, upload |-> Bad]

-----------------------------------------------------------------------------
(* sprite_uniforms.h                                                        *)

Hits(l) == {w \in DOMAIN sprites : sprites[w].program = current /\ sprites[w].location = l}

SpritesWithout(ways) ==
  [w \in DOMAIN sprites |-> IF w \in ways THEN [sprites[w] EXCEPT !.have = FALSE]
                            ELSE sprites[w]]

\* sprite_uniforms_begin and sprite_uniforms_other
ForgetAll == SpritesWithout(DOMAIN sprites)
ForgetAt(l) == SpritesWithout(Hits(l))

Unused == {w \in DOMAIN sprites : sprites[w].program = None}

\* sprite_uniform_entry: the last unused one, else the next victim.
EntryFor(l) ==
  IF Hits(l) # {} THEN CHOOSE w \in Hits(l) : TRUE
  ELSE IF Unused # {} THEN CHOOSE w \in Unused : \A v \in Unused : v =< w
  ELSE victim
NextVictim(l) == IF Hits(l) = {} /\ Unused = {} THEN (victim + 1) % Ways ELSE victim

Put(l, v) ==
  /\ uniform' = [uniform EXCEPT ![current][l] = v]
  /\ wanted' = [wanted EXCEPT ![current][l] = v]

\* glUniform1i, glUniform4f and the others of one value: sprite_uniform_same.
\* An element of an array is not eligible, a value that is not finite not kept.
SetSprite(l, v) ==
  LET w == EntryFor(l)
      kind == layout[current][l]
      same == sprites[w].program = current /\ sprites[w].location = l /\ sprites[w].kind = kind
      keep == kind # "element" /\ v # Bad
  IN /\ current # None /\ kind # "matrix" /\ (v = Bad => kind # "scalar")
     /\ IF same /\ sprites[w].have /\ sprites[w].value = v /\ keep
        THEN uniform' = uniform /\ wanted' = [wanted EXCEPT ![current][l] = v]
        ELSE Put(l, v)
     /\ sprites' = [sprites EXCEPT ![w] =
                      [program |-> current, location |-> l, kind |-> kind,
                       have |-> keep, value |-> IF keep THEN v ELSE Bad]]
     /\ victim' = NextVictim(l)
     /\ UNCHANGED <<driverVars, states>>

\* The functions of other types: the cache forgets the location.
SetOther(l, v) ==
  /\ current # None /\ layout[current][l] = "element"
  /\ Put(l, v)
  /\ sprites' = ForgetAt(l)
  /\ UNCHANGED <<driverVars, victim, states>>

\* Several values at once, to an array: the cache forgets everything.
SetArray(v) ==
  /\ current # None /\ \A l \in Locations : layout[current][l] = "element"
  /\ uniform' = [uniform EXCEPT ![current] = [l \in Locations |-> v]]
  /\ wanted' = [wanted EXCEPT ![current] = [l \in Locations |-> v]]
  /\ sprites' = ForgetAll
  /\ UNCHANGED <<driverVars, victim, states>>

BeginFrame ==
  /\ sprites' = ForgetAll
  /\ UNCHANGED <<layout, uniform, wanted, current, victim, states>>

-----------------------------------------------------------------------------
(* glUniformMatrix4fv.                                                      *)

Matrices(p) == {l \in Locations : layout[p][l] = "matrix"}

\* sole_mat4_location asks the driver once.
SoleMatrix(p) == IF Cardinality(Matrices(p)) = 1 THEN CHOOSE l \in Matrices(p) : TRUE ELSE None

\* mat4_state_get
StateSlot(p) ==
  IF \E s \in States : states[s].program = p THEN CHOOSE s \in States : states[s].program = p
  ELSE IF \E s \in States : states[s].program = None
       THEN CHOOSE s \in States : /\ states[s].program = None
                                  /\ \A r \in States : states[r].program = None => s =< r
  ELSE StateHome[p]

StateOf(p) ==
  LET state == states[StateSlot(p)]
      mine == IF state.program = p THEN state ELSE [NoState EXCEPT !.program = p]
  IN IF mine.cached THEN mine ELSE [mine EXCEPT !.cached = TRUE, !.sole = SoleMatrix(p)]

Keep(state) == states' = [states EXCEPT ![StateSlot(current)] = state]
At(location, l) == IF location = None THEN l ELSE location

\* What the driver makes of a value that is passed transposed.
Stored(v, plain) == IF plain THEN v ELSE 2 * v

MatrixArguments(l, v) ==
  /\ current # None /\ Matrices(current) # {} /\ v \in Values \cup {Bad}
  /\ SoleMatrix(current) = None => l \in Matrices(current)
  /\ UNCHANGED <<driverVars, victim>>

\* Cached in the state are only uploads of the sole matrix, not transposed.
IsCached(state, plain) == plain /\ state.sole # None

SkipMatrix(l, v) ==
  LET state == StateOf(current) IN
  /\ MatrixArguments(l, v)
  /\ IsCached(state, TRUE) /\ state.upload = v /\ v # Bad
  /\ wanted' = [wanted EXCEPT ![current][At(SoleMatrix(current), l)] = v]
  /\ Keep(state)
  /\ UNCHANGED <<uniform, sprites>>

Remembered(state, plain) == IF IsCached(state, plain) THEN state ELSE [state EXCEPT !.upload = Bad]

UploadMatrix(state, l, v, plain) ==
  /\ uniform' = [uniform EXCEPT ![current][At(state.sole, l)] = Stored(v, plain)]
  /\ wanted' = [wanted EXCEPT ![current][At(SoleMatrix(current), l)] = Stored(v, plain)]
  /\ sprites' = ForgetAt(At(state.sole, l))
  /\ Keep([state EXCEPT !.upload = IF IsCached(state, plain) THEN v ELSE Bad])

SetMatrix(l, v, plain) ==
  LET state == StateOf(current) IN
  /\ MatrixArguments(l, v) /\ v # Bad
  /\ ~(IsCached(state, plain) /\ state.upload = v)
  /\ UploadMatrix([state EXCEPT !.finite = v], l, v, plain)

\* A matrix that is not finite: the last finite one, its signs set anew, or none.
RepairMatrix(l, plain) ==
  LET state == StateOf(current) IN
  /\ MatrixArguments(l, Bad) /\ state.finite # Bad
  /\ \E v \in {state.finite, -state.finite} : UploadMatrix(state, l, v, plain)

RejectMatrix(l, plain) ==
  LET state == StateOf(current) IN
  /\ MatrixArguments(l, Bad) /\ state.finite = Bad
  /\ Keep(Remembered(state, plain))
  /\ UNCHANGED <<uniform, wanted, sprites>>

-----------------------------------------------------------------------------
(* Programs.                                                                *)

\* Mutant: the mat4 states outlive the program they describe.
InvalidateSprites(p) ==
  /\ sprites' = [w \in DOMAIN sprites |-> IF sprites[w].program = p THEN NoSprite ELSE sprites[w]]
  /\ UNCHANGED <<states, victim>>

\* program_caches_invalidate
Invalidate(p) ==
  /\ sprites' = [w \in DOMAIN sprites |-> IF sprites[w].program = p THEN NoSprite ELSE sprites[w]]
  /\ states' = [s \in States |-> IF states[s].program = p THEN NoState ELSE states[s]]
  /\ UNCHANGED victim

\* A link, of a new program or again, resets the uniforms.
LinkProgram(p, types) ==
  /\ layout' = [layout EXCEPT ![p] = types]
  /\ uniform' = [uniform EXCEPT ![p] = [l \in Locations |-> Unset]]
  /\ wanted' = [wanted EXCEPT ![p] = [l \in Locations |-> Unset]]
  /\ Invalidate(p)
  /\ UNCHANGED current

DeleteProgram(p) ==
  /\ layout[p] # None
  /\ layout' = [layout EXCEPT ![p] = None]
  /\ uniform' = [uniform EXCEPT ![p] = [l \in Locations |-> Unset]]
  /\ wanted' = [wanted EXCEPT ![p] = [l \in Locations |-> Unset]]
  /\ Invalidate(p)
  /\ current' = IF current = p THEN None ELSE current

UseProgram(p) ==
  /\ layout[p] # None
  /\ current' = p
  /\ UNCHANGED <<layout, uniform, wanted, sprites, victim, states>>

-----------------------------------------------------------------------------

Init ==
  /\ layout = [p \in Programs |-> None]
  /\ uniform = [p \in Programs |-> [l \in Locations |-> Unset]] /\ wanted = uniform
  /\ current = None
  /\ sprites = [w \in 0 .. Ways - 1 |-> NoSprite] /\ victim = 0
  /\ states = [s \in States |-> NoState]

Next ==
  \/ BeginFrame
  \/ \E p \in Programs :
       \/ UseProgram(p) \/ DeleteProgram(p)
       \/ \E types \in Layouts : LinkProgram(p, types)
  \/ \E v \in Values : SetArray(v)
  \/ \E l \in Locations :
       \/ \E v \in Values \cup {Bad} : SetSprite(l, v)
       \/ \E v \in Values : SetOther(l, v) \/ SkipMatrix(l, v)
       \/ \E plain \in BOOLEAN :
            \/ \E v \in Values : SetMatrix(l, v, plain)
            \/ RepairMatrix(l, plain) \/ RejectMatrix(l, plain)

Spec == Init /\ [][Next]_vars

-----------------------------------------------------------------------------
TypeOK ==
  /\ layout \in [Programs -> Layouts \cup {None}]
  /\ current \in {None} \cup {p \in Programs : layout[p] # None}
  /\ \A w \in DOMAIN sprites :
       /\ sprites[w].program \in Programs \cup {None}
       /\ sprites[w].location \in Locations \cup {None}
  /\ victim \in 0 .. Ways - 1
  /\ \A s \in States : /\ states[s].program \in Programs \cup {None}
                       /\ states[s].sole \in Locations \cup {None}

\* Skipping uploads cannot be seen: every uniform of every program has what it
\* would have if each call reached the driver, at the location where the linked
\* program has its matrix, also after links, deletions, recycled names and
\* evictions (glutil.c:161-162, 3851-3913, sprite_uniforms.h:1-3).
CachesAreTransparent == TypeOK /\ uniform = wanted
=============================================================================

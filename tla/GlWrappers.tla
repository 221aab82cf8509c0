----------------------------- MODULE GlWrappers -----------------------------
(* The wrappers of utils/glutil.c the game's GL thread calls: those of        *)
(* textures (GlTextures) and those of programs and uniforms (GlPrograms).     *)
(* They share no state, so a behaviour uses one kind and leaves the other     *)
(* alone: the behaviours that mix them show nothing more of either.           *)
EXTENDS GlTextures

CONSTANTS Programs, Locations, Layouts, Ways, States, StateHome, Values

ASSUME ProgramAssumption ==
  /\ Ways \in Nat \ {0} /\ States \subseteq Nat /\ StateHome \in [Programs -> States]
  /\ Layouts \subseteq [Locations -> {"scalar", "vector", "element", "matrix"}]
  /\ None \notin Programs \cup Locations \cup Layouts
  /\ \A v \in Values : -v \in Values

VARIABLES layout, uniform, wanted, current, sprites, victim, states, used

P == INSTANCE GlPrograms

programVars == <<layout, uniform, wanted, current, sprites, victim, states>>
allVars == <<vars, programVars, used>>

AllInit == Init /\ P!Init /\ used \in {"textures", "programs"}

CallTexture == used = "textures" /\ Next /\ UNCHANGED <<programVars, used>>
CallProgram == used = "programs" /\ P!Next /\ UNCHANGED <<vars, used>>

AllSpec == AllInit /\ [][CallTexture \/ CallProgram]_allVars

\* GlPrograms!CachesAreTransparent, where it is explained: no skipped upload of a
\* uniform can be seen by a program (program_caches_invalidate, mat4_state_get,
\* sprite_uniform_same, glUniformMatrix4fv_soloader).
CachesAreTransparent == P!CachesAreTransparent
=============================================================================

----------------------------- MODULE GlTextures -----------------------------
(***************************************************************************)
(* The texture wrappers of utils/glutil.c between the game and the driver.  *)
(* Large art is stored at half its size, alpha is stored as RGBA, and an    *)
(* image that does not fit is replaced by a placeholder of one pixel; three *)
(* sets of names, dsamp, alpha8 and texfail, remember it, so that later     *)
(* fills are scaled, converted or dropped.  The names are recycled by GL.   *)
(*                                                                         *)
(* GL has one context, so a call is one step: its texture is the bound one  *)
(* (texture_sync_upload_binding asks the driver), and it ends in one of the *)
(* ways memory allows.  The game's calls are legal ones: a fill lies within *)
(* the image and matches its format, so the driver fails for want of memory *)
(* only, and it then leaves the texture without storage.                    *)
(*                                                                         *)
(* Left out are targets other than GL_TEXTURE_2D and two more imported ways *)
(* to define an image, of which the port does not advertise the first:      *)
(* glTexStorage2D, which marks a large image before an upload that may fail *)
(* (glutil.c:3351, 3956), and glCopyTexImage2D, which goes to the driver as *)
(* it is and leaves the marks alone (dynlib.c:831).                         *)
(***************************************************************************)
EXTENDS Integers, FiniteSets

CONSTANTS
  Textures, None,
  Slots,        \* DSAMP_SLOTS, a power of two
  Home          \* where the hash puts a name

ASSUME TextureAssumption ==
  /\ Slots \in Nat \ {0} /\ IsFiniteSet(Textures) /\ None \notin Textures
  /\ Home \in [Textures -> 0 .. Slots - 1]
  /\ Cardinality(Textures) < Slots   \* fewer marked textures at a time than slots

VARIABLES
  declared,     \* the format the game gave a texture
  storage,      \* what the driver has: none, full, half or tiny, the placeholder
  pixel,        \* and its pixel format
  dsamp, alpha8, texfail,   \* s_dsamp, s_alpha8, s_texfail
  running,      \* no fatal_error yet
  sent          \* what the last call uploaded into an image that was there

imageVars == <<declared, storage, pixel>>
markVars == <<dsamp, alpha8, texfail>>
vars == <<imageVars, markVars, running, sent>>

Index == 0 .. Slots - 1
Ring(i) == i % Slots
Nothing == [texture |-> None, scale |-> "none", pixel |-> "none"]

-----------------------------------------------------------------------------
(* The sets are tables with linear probing.                                 *)

\* The first slot on the way from its home that has the name, or is empty.
Probe(table, x) ==
  LET At(n) == Ring(Home[x] + n)
      n == CHOOSE n \in Index :
             /\ table[At(n)] \in {x, None}
             /\ \A m \in 0 .. n - 1 : table[At(m)] \notin {x, None}
  IN At(n)

Marked(table, x) == table[Probe(table, x)] = x
Mark(table, x) == [table EXCEPT ![Probe(table, x)] = x]

\* One turn of the loop: the name at next moves up as far as its home allows.
MoveUp(s, next) ==
  LET x == s.table[next] IN
  IF Ring(next - Home[x]) >= Ring(next - s.hole)
  THEN [table |-> [s.table EXCEPT ![s.hole] = x], hole |-> next] ELSE s

\* What is reached after n slots behind the first hole.
Moved(table, first) ==
  LET after[n \in Index] == IF n = 0 THEN [table |-> table, hole |-> first]
                            ELSE MoveUp(after[n - 1], Ring(first + n))
  IN after

\* The slots before the next empty one, at most all but the hole.
Scanned(table, first) ==
  CHOOSE n \in Index : /\ \A m \in 1 .. n : table[Ring(first + m)] # None
                       /\ n = Slots - 1 \/ table[Ring(first + n + 1)] = None

CloseGap(table, first) ==
  LET end == Moved(table, first)[Scanned(table, first)] IN
  [end.table EXCEPT ![end.hole] = None]

\* Mutant: the hole stays, and hides the names behind it.
UnmarkLeavesHole(table, x) ==
  IF Marked(table, x) THEN [table EXCEPT ![Probe(table, x)] = None] ELSE table

\* texture_marks_remove
Unmark(table, x) ==
  LET hole == Probe(table, x) IN
  IF table[hole] = x THEN CloseGap(table, hole) ELSE table

-----------------------------------------------------------------------------
(* The ways the definition of an image ends.                                *)

\* texture_marks_reset, and then the marks of the new image.
Remark(x, marks) ==
  LET Set(table, mark) ==
        IF mark \in marks THEN Mark(Unmark(table, x), x) ELSE Unmark(table, x)
  IN /\ dsamp' = Set(dsamp, "dsamp")
     /\ alpha8' = Set(alpha8, "alpha8")
     /\ texfail' = Set(texfail, "texfail")

Stored(x, size, format, marks) ==
  /\ storage' = [storage EXCEPT ![x] = size]
  /\ pixel' = [pixel EXCEPT ![x] = format]
  /\ Remark(x, marks)
  /\ sent' = Nothing
  /\ UNCHANGED running

Fatal ==
  /\ running' = FALSE
  /\ sent' = Nothing
  /\ UNCHANGED <<storage, pixel, markVars>>

\* texture_placeholder
Placeholder(x) == Stored(x, "tiny", "rgba", {"texfail"}) \/ Fatal

Halved(x) == Stored(x, "half", "rgba", {"dsamp"}) \/ Placeholder(x)

Sizes == {"small", "middle", "large"}

\* Storage without pixels may become a render target: it is never reduced.
UploadBlank(x, format) == Stored(x, "full", format, {}) \/ Fatal

UploadFull(x, format, retry) ==
  \/ Stored(x, "full", format, {})
  \/ ~retry /\ Stored(x, "none", "none", {})
  \/ retry /\ Halved(x)

\* Large art is halved first, if there is memory for the smaller copy.
UploadRGBA(x, size) ==
  \/ size = "large" /\ Halved(x)
  \/ UploadFull(x, "rgba", size # "small")

\* The placeholder is for want of memory to convert, or to decode, the pixels.
UploadPacked(x) == Placeholder(x) \/ \E size \in Sizes : UploadRGBA(x, size)

UploadAlpha(x) ==
  \/ Stored(x, "half", "rgba", {"alpha8", "dsamp"})   \* large
  \/ Stored(x, "full", "rgba", {"alpha8"})
  \/ Placeholder(x)

\* Large textures are halved with or without data.
UploadETC1(x) ==
  \/ Placeholder(x) \/ Halved(x)
  \/ \E size \in Sizes \ {"large"} : UploadRGBA(x, size)

UploadCompressed(x) == Stored(x, "full", "other", {}) \/ Placeholder(x)

-----------------------------------------------------------------------------
(* The game's calls.                                                        *)

\* Packed pixels are converted: later calls treat the texture as one of rgba.  BGRA,
\* which the port advertises (glutil.c:300-305), is left to the driver.
Declare(x, format) ==
  /\ running
  /\ declared' = [declared EXCEPT ![x] = IF format = "packed" THEN "rgba" ELSE format]

TexImage2D(x, format) ==
  /\ Declare(x, format)
  /\ \/ format \in {"rgba", "packed"} /\ UploadBlank(x, "rgba")
     \/ format = "rgba" /\ \E size \in Sizes : UploadRGBA(x, size)
     \/ format = "packed" /\ UploadPacked(x)
     \/ format = "alpha" /\ UploadAlpha(x)
     \/ format \in {"bgra", "other"} /\ (UploadBlank(x, format) \/ UploadFull(x, format, FALSE))

CompressedTexImage2D(x, format) ==
  /\ Declare(x, format)
  /\ \/ format = "etc1" /\ (UploadBlank(x, "rgba") \/ UploadETC1(x))
     \/ format = "compressed" /\ UploadCompressed(x)

\* The format of a mip level, and of a fill of an image, when they reach the driver.
LevelFormat(x) ==
  IF declared[x] = "alpha" /\ Marked(alpha8, x) THEN "rgba" ELSE declared[x]

FillFormat(x) == IF declared[x] \in {"bgra", "etc1"} THEN "rgba" ELSE LevelFormat(x)

Upload(x, scale, format) ==
  /\ sent' = [texture |-> x, scale |-> scale, pixel |-> format]
  /\ UNCHANGED <<imageVars, markVars, running>>

Drop ==
  /\ sent' = Nothing
  /\ UNCHANGED <<imageVars, markVars, running>>

MayFill(x) == running /\ declared[x] \notin {None, "compressed"}

\* glTexSubImage2D, and glCompressedTexSubImage2D of ETC1.  thin: less than two
\* pixels wide, or high, which cannot be halved.
TexSubImage2D(x, thin) ==
  /\ MayFill(x)
  /\ ~Marked(texfail, x) /\ ~(thin /\ Marked(dsamp, x))
  /\ Upload(x, IF Marked(dsamp, x) /\ FillFormat(x) = "rgba" THEN "half" ELSE "full",
            FillFormat(x))

TexSubImage2DDropped(x, thin) ==
  /\ MayFill(x)
  /\ \/ Marked(texfail, x)
     \/ thin /\ Marked(dsamp, x)
     \/ FillFormat(x) = "rgba"   \* no memory to convert or to halve it
  /\ Drop

\* Mutant: a mip level of any texture goes to the driver.
TexImageMipAlways(x) ==
  /\ MayFill(x) /\ declared[x] # "etc1"
  /\ Upload(x, "full", LevelFormat(x))

\* Levels above 0.  Those of compressed textures are all dropped.
TexImageMip(x) ==
  /\ MayFill(x) /\ declared[x] # "etc1"
  /\ ~Marked(dsamp, x) /\ ~Marked(texfail, x)
  /\ Upload(x, "full", LevelFormat(x))

TexImageMipDropped(x) ==
  /\ running /\ declared[x] # None
  /\ \/ Marked(dsamp, x) \/ Marked(texfail, x)
     \/ declared[x] \in {"etc1", "compressed"}
     \/ LevelFormat(x) = "rgba"   \* no memory to convert it
  /\ Drop

\* Other compressed formats: a fill at the corner defines the image anew.
CompressedTexSubImage2D(x, corner) ==
  /\ running /\ declared[x] = "compressed"
  /\ UNCHANGED declared
  /\ \/ corner /\ UploadCompressed(x)
     \/ ~corner /\ sent' = Nothing /\ UNCHANGED <<storage, pixel, markVars, running>>

\* One of the names glDeleteTextures is given.
DeleteTexture(x) ==
  /\ running /\ declared[x] # None
  /\ declared' = [declared EXCEPT ![x] = None]
  /\ Stored(x, "none", "none", {})

-----------------------------------------------------------------------------

Init ==
  /\ declared = [x \in Textures |-> None]
  /\ storage = [x \in Textures |-> "none"] /\ pixel = storage
  /\ dsamp = [i \in Index |-> None] /\ alpha8 = dsamp /\ texfail = dsamp
  /\ running = TRUE /\ sent = Nothing

Next ==
  \E x \in Textures :
    \/ TexImageMip(x) \/ TexImageMipDropped(x) \/ DeleteTexture(x)
    \/ \E b \in BOOLEAN :
         \/ TexSubImage2D(x, b) \/ TexSubImage2DDropped(x, b)
         \/ CompressedTexSubImage2D(x, b)
    \/ \E format \in {"rgba", "packed", "alpha", "bgra", "other"} : TexImage2D(x, format)
    \/ \E format \in {"etc1", "compressed"} : CompressedTexImage2D(x, format)

Spec == Init /\ [][Next]_vars

-----------------------------------------------------------------------------
TypeOK ==
  /\ declared \in [Textures -> {"rgba", "alpha", "bgra", "other", "etc1", "compressed", None}]
  /\ storage \in [Textures -> {"none", "full", "half", "tiny"}]
  /\ pixel \in [Textures -> {"none", "rgba", "bgra", "other"}]
  /\ {dsamp, alpha8, texfail} \subseteq [Index -> Textures \cup {None}]
  /\ running \in BOOLEAN

\* The sets say what the driver has, whatever was defined, failed, was deleted
\* and whose name was recycled: a texture is in dsamp when its storage is halved,
\* in texfail when it is the placeholder, in alpha8 when it is alpha stored as
\* RGBA.  A mark that is missing lets a fill reach beyond the image, a stale one
\* drops the fills of an unrelated texture (texture_marks.h:7-9).
MarksTellStorage ==
  /\ TypeOK
  /\ running => \A x \in Textures :
       /\ Marked(dsamp, x) <=> storage[x] = "half"
       /\ Marked(texfail, x) <=> storage[x] = "tiny"
       /\ Marked(alpha8, x) <=> declared[x] = "alpha" /\ storage[x] \in {"full", "half"}

\* What goes to an image that is there has its scale and its format, on every
\* path: fills, mip levels, conversions (glutil.c:3434-3451, 3041-3042).  One pair
\* is excepted by name: RGBA pixels for an image of BGRA.  A fill of BGRA is
\* converted (3459-3468), the image it fills is not (3154), and the driver has to
\* translate or reject it; its scale fits all the same.
UploadsFit ==
  sent # Nothing /\ storage[sent.texture] # "none" =>
    /\ sent.scale = storage[sent.texture]
    /\ \/ sent.pixel = pixel[sent.texture]
       \/ sent.pixel = "rgba" /\ pixel[sent.texture] = "bgra"
=============================================================================

------------------------ MODULE ResourceCacheProofs ------------------------
(***************************************************************************)
(* The resource cache keeps the three copies of a surface coherent, for    *)
(* any pages, surfaces and layouts, and a guest that keeps to the rules    *)
(* that the code relies on.                                                *)
(***************************************************************************)
EXTENDS ResourceCache, TLAPS

\* The guest keeps the CPU off the pages in use; its zeta surfaces share no memory
\* with its color surfaces (download_pixels_to_memory asserts that the sync of
\* one does not mark the other); and it does not render to the same pixels in
\* two formats (bind_texture_2d keeps a texture for each, and an upload is the
\* only thing that tells one of them that the pixels have changed).
SurfacesApart ==
  \A z \in Zeta, c \in Color : Block[PixelsOf[z]] \intersect Block[PixelsOf[c]] = {}
OneFormat == \A t, u \in Textures : PixelsOf[t] = PixelsOf[u] => t = u
Guarded == Cautious /\ SurfacesApart /\ OneFormat
-----------------------------------------------------------------------------
(* The inductive invariant.                                                *)

Agree(f, g, B) == \A p \in B : f[p] = g[p]
Area(t) == Block[PixelsOf[t]]

\* The targets whose contents may be newer than memory: none between Begin,
\* which has written everything back, and BindColor.
Drawn == IF pc \in {"idle", "units", "draw"} THEN Targets(framebuffer) ELSE {}

\* The targets that are bound.
Bound ==
  IF pc = "color" THEN {Chosen(surface.zeta, writes.zeta)} \ {None} ELSE Drawn

\* Cached pixels that upload_memory_to_pixels would leave alone.
Clean(k) == k \in pixels /\ k \notin dirty /\ page_dirty \intersect Block[k] = {}

\* A bound target still has its buffer, the download's asserts hold of it, and
\* it shows what was last written to its memory.
TargetInv ==
  \A t \in Bound :
    buffer[t] = PixelsOf[t] /\ Clean(PixelsOf[t]) /\ Agree(gl_texture[t], want, Area(t))

MemoryInv == Agree(vram, want, Pages \ Covered(Drawn))

\* No two cached pixels overlap, and the clean ones equal memory.
PixelsInv ==
  /\ \A j, k \in pixels : j # k => Block[j] \intersect Block[k] = {}
  /\ \A k \in pixels : Clean(k) => \/ \E t \in Drawn : PixelsOf[t] = k
                                   \/ Agree(gl_buffer[k], vram, Block[k])

\* A cached texture that has a buffer has one that is cached, and equals memory
\* while that is clean.
TextureInv ==
  /\ \A t \in Textures : buffer[t] \in {None, PixelsOf[t]}
  /\ \A t \in texture_2d : buffer[t] # None =>
       /\ PixelsOf[t] \in pixels
       /\ Clean(PixelsOf[t]) => t \in Drawn \/ Agree(gl_texture[t], vram, Area(t))

CacheInv ==
  /\ TypeOK /\ AssertsHold /\ TargetInv /\ MemoryInv /\ PixelsInv /\ TextureInv
-----------------------------------------------------------------------------
(* Types.                                                                  *)

LEMMA KeyTypes ==
  /\ \A t \in Textures : PixelsOf[t] \in Keys /\ PixelsOf[t] # None
  /\ \A k \in Keys : Block[k] \subseteq Pages /\ Block[k] # {}
  /\ \A t \in Textures : Area(t) \subseteq Pages /\ Area(t) # {}
  /\ Zeta \subseteq Textures /\ Color \subseteq Textures /\ None \notin Textures
  /\ None \notin Keys
BY KeysAssumption, Zenon DEF Area

LEMMA OverlappingIs ==
  ASSUME NEW j, NEW k \in Keys
  PROVE  j \in Overlapping[k] <=> j \in Keys /\ Block[j] \intersect Block[k] # {}
BY Zenon DEF Overlapping

LEMMA CoveredBy ==
  ASSUME NEW ts, NEW p
  PROVE  p \in Covered(ts) <=> \E t \in ts : p \in Area(t)
BY Zenon DEF Covered, Area

LEMMA TargetTypes ==
  ASSUME TypeOK
  PROVE  /\ Targets(framebuffer) \subseteq Textures
         /\ \A t \in Targets(framebuffer) : t \in Zeta \union Color
         /\ Drawn \subseteq Targets(framebuffer) /\ Bound \subseteq Textures
         /\ Covered(Targets(framebuffer)) \subseteq Pages
  <1>1. /\ Targets(framebuffer) \subseteq Textures
        /\ \A t \in Targets(framebuffer) : t \in Zeta \union Color
    BY KeyTypes DEF TypeOK, Targets
  <1>2. Drawn \subseteq Targets(framebuffer)
    BY Zenon DEF Drawn
  <1>3. {Chosen(surface.zeta, writes.zeta)} \ {None} \subseteq Textures
    BY KeyTypes, Zenon DEF TypeOK, Chosen
  <1> QED BY <1>1, <1>2, <1>3, KeyTypes, CoveredBy, Zenon DEF Bound

\* The two targets of the framebuffer do not overlap.
LEMMA TargetsApart ==
  ASSUME TypeOK, SurfacesApart, NEW t \in Targets(framebuffer), NEW u \in Targets(framebuffer),
         t # u
  PROVE  Area(t) \intersect Area(u) = {}
  <1>1. framebuffer # None /\ framebuffer.zeta \in Zeta \union {None}
        /\ framebuffer.color \in Color \union {None}
    BY Zenon DEF TypeOK, Targets
  <1>2. {t, u} = {framebuffer.zeta, framebuffer.color} /\ t # None /\ u # None
    BY <1>1 DEF Targets
  <1> QED BY <1>1, <1>2, Zenon DEF SurfacesApart, Area
-----------------------------------------------------------------------------
(* Download.                                                               *)

\* What a download of the targets ts amounts to.
WrittenBack(ts) ==
  /\ failed' = "no" /\ UNCHANGED <<pixels, dirty, page_dirty>>
  /\ gl_buffer' \in [Keys -> [Pages -> Values \union {None}]] /\ vram' \in [Pages -> Values]
  /\ \A t \in ts : Agree(gl_buffer'[PixelsOf[t]], want, Area(t))
  /\ \A k \in Keys : (\A t \in ts : PixelsOf[t] # k) => gl_buffer'[k] = gl_buffer[k]
  /\ Agree(vram', want, Covered(ts)) /\ Agree(vram', vram, Pages \ Covered(ts))

LEMMA DownloadWorks ==
  ASSUME Guarded, CacheInv, pc = "idle", NEW zeta, NEW color, Download(zeta, color)
  PROVE  WrittenBack(Named(zeta, color))
  <1> DEFINE ts == Named(zeta, color)
             D == {buffer[t] : t \in ts} \intersect pixels
             written == UNION {Block[k] : k \in D}
             read == [k \in Keys |->
                        IF \E t \in ts : buffer[t] = k
                          THEN Copied(gl_buffer[k], Block[k], gl_texture[CHOOSE t \in ts : buffer[t] = k])
                          ELSE gl_buffer[k]]
  <1>0. TypeOK /\ SurfacesApart /\ OneFormat
    BY Zenon DEF Guarded, CacheInv
  <1>1. ts \subseteq Targets(framebuffer) /\ ts \subseteq Textures
    BY <1>0, TargetTypes, Zenon DEF Named
  <1>2. \A t \in ts : /\ buffer[t] = PixelsOf[t] /\ Clean(PixelsOf[t])
                       /\ Agree(gl_texture[t], want, Area(t))
    BY <1>1, Zenon DEF CacheInv, TargetInv, Bound, Drawn
  <1>3. \A t \in ts : buffer[t] # None /\ buffer[t] \in Keys
    BY <1>1, <1>2, KeyTypes, Zenon
  <1>4. D = {PixelsOf[t] : t \in ts}
    BY <1>2 DEF Clean
  <1>5. Refusal(D) = {}
    <2>1. \A k \in D : k \notin dirty /\ page_dirty \intersect Block[k] = {}
      BY <1>2, <1>4, Zenon DEF Clean
    <2>2. \A k \in D : Overlapping[k] \intersect (D \ {k}) = {}
      <3> SUFFICES ASSUME NEW k \in D, NEW j \in D, j # k
                   PROVE  j \notin Overlapping[k]
        BY Zenon
      <3>1. PICK t \in ts, u \in ts : k = PixelsOf[t] /\ j = PixelsOf[u] /\ t # u
        BY <1>4, Zenon
      <3>2. k \in Keys /\ Block[j] \intersect Block[k] = {}
        BY <1>0, <1>1, <3>1, TargetsApart, KeyTypes, Zenon DEF Area
      <3> QED BY <3>2, OverlappingIs, Zenon
    <2> QED BY <2>1, <2>2, Zenon DEF Refusal
  <1>6. /\ gl_buffer' = read
        /\ vram' = [p \in Pages |-> IF p \in written
                                      THEN read[CHOOSE k \in D : p \in Block[k]][p] ELSE vram[p]]
        /\ page_dirty' = page_dirty \ written
        /\ dirty' = MarkedBy(D)
        /\ UNCHANGED <<pixels, failed>>
    BY <1>3, <1>5, Zenon DEF Download
  <1>7. \A t \in ts : /\ PixelsOf[t] \in Keys
                       /\ read[PixelsOf[t]] = Copied(gl_buffer[PixelsOf[t]], Area(t), gl_texture[t])
    <2> SUFFICES ASSUME NEW t \in ts
                 PROVE  /\ PixelsOf[t] \in Keys
                        /\ read[PixelsOf[t]] = Copied(gl_buffer[PixelsOf[t]], Area(t), gl_texture[t])
      BY Zenon
    <2>1. \A u \in ts : buffer[u] = PixelsOf[t] => u = t
      BY <1>0, <1>1, <1>2, Zenon DEF OneFormat
    <2>2. (CHOOSE u \in ts : buffer[u] = PixelsOf[t]) = t
      BY <1>2, <2>1, Zenon
    <2> QED BY <1>1, <1>2, <2>2, KeyTypes, Zenon DEF Area
  <1>8. \A t \in ts : Agree(read[PixelsOf[t]], want, Area(t))
    <2> SUFFICES ASSUME NEW t \in ts, NEW p \in Area(t)
                 PROVE  read[PixelsOf[t]][p] = want[p]
      BY Zenon DEF Agree
    <2> HIDE DEF read
    <2>1. p \in Pages /\ gl_texture[t][p] = want[p]
      BY <1>1, <1>2, KeyTypes, Zenon DEF Agree
    <2> QED BY <1>7, <2>1, Zenon DEF Copied
  <1>9. \A k \in Keys : (\A t \in ts : PixelsOf[t] # k) => read[k] = gl_buffer[k]
    BY <1>2, Zenon
  <1>10. read \in [Keys -> [Pages -> Values \union {None}]]
    <2> SUFFICES ASSUME NEW k \in Keys PROVE read[k] \in [Pages -> Values \union {None}]
      BY Zenon
    <2>1. CASE \E t \in ts : buffer[t] = k
      <3>1. PICK t \in ts : k = PixelsOf[t]
        BY <1>2, <2>1, Zenon
      <3>2. read[k] = Copied(gl_buffer[k], Area(t), gl_texture[t])
        BY <1>7, <3>1, Zenon
      <3>3. gl_buffer[k] \in [Pages -> Values \union {None}]
            /\ gl_texture[t] \in [Pages -> Values \union {None}]
        BY <1>0, <1>1, Zenon DEF TypeOK
      <3> HIDE DEF read
      <3> QED BY <3>2, <3>3, Zenon DEF Copied
    <2>2. CASE ~\E t \in ts : buffer[t] = k
      BY <1>0, <2>2, Zenon DEF TypeOK
    <2> QED BY <2>1, <2>2, Zenon
  <1>11. written = Covered(ts)
    BY <1>4, Zenon DEF Covered
  <1> HIDE DEF read
  <1>12. \A p \in Covered(ts) : read[CHOOSE k \in D : p \in Block[k]][p] = want[p]
    <2> SUFFICES ASSUME NEW p \in Covered(ts)
                 PROVE  read[CHOOSE k \in D : p \in Block[k]][p] = want[p]
      BY Zenon
    <2>1. \E k \in D : p \in Block[k]
      BY <1>11, Zenon
    <2>2. PICK t \in ts : (CHOOSE k \in D : p \in Block[k]) = PixelsOf[t] /\ p \in Area(t)
      BY <1>4, <2>1, Zenon DEF Area
    <2> QED BY <1>8, <2>2, Zenon DEF Agree
  <1>13. Covered(ts) \subseteq Pages
    BY <1>1, CoveredBy, KeyTypes, Zenon
  <1>14. /\ vram' \in [Pages -> Values]
         /\ Agree(vram', want, Covered(ts)) /\ Agree(vram', vram, Pages \ Covered(ts))
    BY <1>0, <1>6, <1>11, <1>12, <1>13, Zenon DEF TypeOK, Agree
  <1>15. page_dirty' = page_dirty
    BY <1>2, <1>6, <1>11, CoveredBy, Zenon DEF Clean, Area
  <1>16. dirty' = dirty
    <2>1. \A j \in pixels, k \in D : j \in Overlapping[k] => j = k
      <3>1. D \subseteq pixels /\ pixels \subseteq Keys
        BY <1>0, Zenon DEF TypeOK
      <3> QED BY <3>1, OverlappingIs, Zenon DEF CacheInv, PixelsInv
    <2>2. \A k \in D : k \notin dirty /\ k \in pixels
      BY <1>2, <1>4, Zenon DEF Clean
    <2> QED BY <1>6, <2>1, <2>2, Zenon DEF MarkedBy
  <1>17. failed' = "no"
    BY <1>6, Zenon DEF CacheInv, AssertsHold
  <1> QED BY <1>6, <1>8, <1>9, <1>10, <1>14, <1>15, <1>16, <1>17, Zenon DEF WrittenBack

\* After it the clean copies agree with memory again, those of ts included.
LEMMA WrittenBackKeeps ==
  ASSUME Guarded, CacheInv, pc = "idle", NEW ts \in SUBSET Drawn, WrittenBack(ts),
         UNCHANGED <<texVars, want>>, Drawn \ ts \subseteq Drawn'
  PROVE  MemoryInv' /\ PixelsInv' /\ TextureInv'
  <1> USE DEF texVars
  <1>0. TypeOK /\ ts \subseteq Textures
    BY TargetTypes, Zenon DEF CacheInv
  <1>1. UNCHANGED <<pixels, dirty, page_dirty>> /\ \A k : Clean(k)' <=> Clean(k)
    BY Zenon DEF WrittenBack, Clean
  <1>2. MemoryInv'
    <2> SUFFICES ASSUME NEW p \in Pages, p \notin Covered(Drawn')
                 PROVE  vram'[p] = want'[p]
      BY Zenon DEF MemoryInv, Agree, Covered
    <2>1. CASE p \in Covered(ts)
      BY <2>1, Zenon DEF WrittenBack, Agree
    <2>2. CASE p \notin Covered(ts)
      <3>1. p \notin Covered(Drawn)
        BY <2>2, CoveredBy, Zenon
      <3> QED BY <2>2, <3>1, Zenon DEF WrittenBack, Agree, CacheInv, MemoryInv
    <2> QED BY <2>1, <2>2, Zenon
  <1>3. \A t \in ts : Agree(want, vram', Area(t))
    BY CoveredBy, Zenon DEF WrittenBack, Agree
  <1>4. ASSUME NEW B \in SUBSET Pages, B \intersect Covered(ts) = {}
        PROVE  Agree(vram', vram, B)
    BY <1>4, Zenon DEF WrittenBack, Agree
  <1>5. ASSUME NEW k \in pixels, \A t \in ts : PixelsOf[t] # k
        PROVE  Block[k] \in SUBSET Pages /\ Block[k] \intersect Covered(ts) = {}
    <2>1. \A t \in ts : PixelsOf[t] \in pixels
      BY Zenon DEF CacheInv, TargetInv, Bound, Drawn, Clean
    <2>2. \A t \in ts : Block[k] \intersect Area(t) = {}
      BY <1>5, <2>1, Zenon DEF CacheInv, PixelsInv, Area
    <2>3. k \in Keys
      BY <1>0, Zenon DEF TypeOK
    <2> QED BY <2>2, <2>3, CoveredBy, KeyTypes
  <1>6. PixelsInv'
    <2>1. ASSUME NEW k \in pixels, Clean(k), \A t \in Drawn' : PixelsOf[t] # k
          PROVE  Agree(gl_buffer'[k], vram', Block[k])
      <3>1. CASE \E t \in ts : PixelsOf[t] = k
        <4>1. PICK t \in ts : PixelsOf[t] = k
          BY <3>1, Zenon
        <4> QED BY <1>3, <4>1, Zenon DEF WrittenBack, Agree, Area
      <3>2. CASE \A t \in ts : PixelsOf[t] # k
        <4>1. \A t \in Drawn : PixelsOf[t] # k
          BY <2>1, <3>2, Zenon
        <4>2. Agree(gl_buffer[k], vram, Block[k])
          BY <2>1, <4>1, Zenon DEF CacheInv, PixelsInv
        <4>3. gl_buffer'[k] = gl_buffer[k]
          BY <1>0, <3>2, Zenon DEF WrittenBack, TypeOK
        <4> QED BY <1>4, <1>5, <3>2, <4>2, <4>3, Zenon DEF Agree
      <3> QED BY <3>1, <3>2, Zenon
    <2> QED BY <1>1, <2>1, Zenon DEF PixelsInv, CacheInv
  <1>7. TextureInv'
    <2>1. ASSUME NEW t \in texture_2d, buffer[t] # None, Clean(PixelsOf[t]), t \notin Drawn'
          PROVE  Agree(gl_texture[t], vram', Area(t))
      <3>1. CASE t \in ts
        <4>1. Agree(gl_texture[t], want, Area(t))
          BY <3>1, Zenon DEF CacheInv, TargetInv, Bound, Drawn
        <4> QED BY <1>3, <3>1, <4>1, Zenon DEF Agree
      <3>2. CASE t \notin ts
        <4>1. Agree(gl_texture[t], vram, Area(t)) /\ PixelsOf[t] \in pixels
          BY <2>1, <3>2, Zenon DEF CacheInv, TextureInv
        <4>2. \A u \in ts : PixelsOf[u] # PixelsOf[t]
          BY <1>0, <3>2, Zenon DEF Guarded, OneFormat, TypeOK
        <4> QED BY <1>4, <1>5, <4>1, <4>2, Zenon DEF Agree, Area
      <3> QED BY <3>1, <3>2, Zenon
    <2> QED BY <1>1, <2>1, Zenon DEF TextureInv, CacheInv, Area
  <1> QED BY <1>2, <1>6, <1>7, Zenon
-----------------------------------------------------------------------------
(* bind_texture_2d.                                                        *)

\* Before t is bound nothing is drawn but not written back.
BeforeBind(t) == Guarded /\ CacheInv /\ Drawn = {} /\ t \in Textures /\ vram' = vram

LEMMA MustUploadClean == \A k : MustUpload(k) <=> ~Clean(k)
BY Zenon DEF MustUpload, Clean

LEMMA CopiedType ==
  ASSUME NEW V, NEW f \in [Pages -> V], NEW g \in [Pages -> V], NEW B
  PROVE  Copied(f, B, g) \in [Pages -> V]
BY Zenon DEF Copied

LEMMA CopiedAgrees ==
  ASSUME NEW f, NEW g, NEW B \in SUBSET Pages
  PROVE  Agree(Copied(f, B, g), g, B)
BY Zenon DEF Copied, Agree

\* upload_memory_to_pixels leaves the pixels equal to memory.
LEMMA UploadWorks ==
  ASSUME NEW t, BeforeBind(t)
  PROVE  /\ Agree(Uploaded(PixelsOf[t]), vram, Area(t))
         /\ Uploaded(PixelsOf[t]) \in [Pages -> Values \union {None}]
  <1> DEFINE k == PixelsOf[t]
  <1>1. k \in Keys /\ Block[k] \subseteq Pages /\ Area(t) = Block[k]
    BY KeyTypes, Zenon DEF BeforeBind, Area
  <1>2. /\ gl_buffer[k] \in [Pages -> Values \union {None}]
        /\ vram \in [Pages -> Values \union {None}]
    BY <1>1, Zenon DEF BeforeBind, CacheInv, TypeOK
  <1>3. CASE MustUpload(k)
    <2>1. Uploaded(k) = Copied(gl_buffer[k], Block[k], vram)
      BY <1>3, Zenon DEF Uploaded
    <2>2. Agree(Copied(gl_buffer[k], Block[k], vram), vram, Block[k])
      BY <1>1, CopiedAgrees, Zenon
    <2>3. Copied(gl_buffer[k], Block[k], vram) \in [Pages -> Values \union {None}]
      BY <1>2, CopiedType, Zenon
    <2> QED BY <1>1, <2>1, <2>2, <2>3, Zenon
  <1>4. CASE ~MustUpload(k)
    <2>1. Uploaded(k) = gl_buffer[k] /\ Clean(k) /\ k \in pixels
      BY <1>4, MustUploadClean, Zenon DEF Uploaded, Clean
    <2> QED BY <1>1, <1>2, <2>1, Zenon DEF BeforeBind, CacheInv, PixelsInv
  <1> QED BY <1>3, <1>4, Zenon

\* The pixels that stay beside those of t share no memory with them.
LEMMA OthersApart ==
  ASSUME NEW t, BeforeBind(t), NEW j \in pixels \ Victims(PixelsOf[t]), j # PixelsOf[t]
  PROVE  j \in Keys /\ Block[j] \intersect Area(t) = {} /\ j \notin Overlapping[PixelsOf[t]]
  <1>1. j \in Keys /\ PixelsOf[t] \in Keys
    BY KeyTypes, Zenon DEF BeforeBind, CacheInv, TypeOK
  <1>2. CASE PixelsOf[t] \in pixels
    BY <1>1, <1>2, OverlappingIs, Zenon DEF BeforeBind, CacheInv, PixelsInv, Area
  <1>3. CASE PixelsOf[t] \notin pixels
    BY <1>1, <1>3, OverlappingIs, Zenon DEF Victims, Area
  <1> QED BY <1>2, <1>3, Zenon

\* What bind_texture_2d does to the pixels.
LEMMA BindPixels ==
  ASSUME NEW t, BeforeBind(t), bind_texture_2d(t)
  PROVE  /\ page_dirty' = page_dirty \ Area(t)
         /\ pixels' \subseteq Keys /\ dirty' \subseteq pixels'
         /\ gl_buffer' \in [Keys -> [Pages -> Values \union {None}]]
         /\ Clean(PixelsOf[t])'
         /\ \A j, k \in pixels' : j # k => Block[j] \intersect Block[k] = {}
         /\ \A j \in pixels' : Clean(j)' => Agree(gl_buffer'[j], vram, Block[j])
         /\ \A j \in pixels : Block[j] \intersect Area(t) = {} => j \in pixels' /\ (Clean(j)' <=> Clean(j))
  <1> DEFINE k == PixelsOf[t]
  <1>1. /\ pixels' = (pixels \ Victims(k)) \union {k}
        /\ dirty' = ((dirty \union MarkedWith(k)) \ Victims(k)) \ {k}
        /\ page_dirty' = page_dirty \ Block[k]
        /\ gl_buffer' = [j \in Keys |-> IF j = k THEN Uploaded(k)
                                        ELSE IF j \in Victims(k) THEN Blank ELSE gl_buffer[j]]
    BY Zenon DEF bind_texture_2d
  <1>2. k \in Keys /\ Block[k] \subseteq Pages /\ Area(t) = Block[k] /\ Block[k] # {}
    BY KeyTypes, Zenon DEF BeforeBind, Area
  <1>3. pixels \subseteq Keys /\ dirty \subseteq pixels
        /\ gl_buffer \in [Keys -> [Pages -> Values \union {None}]]
    BY Zenon DEF BeforeBind, CacheInv, TypeOK
  <1>4. pixels' \subseteq Keys /\ dirty' \subseteq pixels'
    BY <1>1, <1>2, <1>3, Zenon DEF MarkedWith
  <1>5. gl_buffer' \in [Keys -> [Pages -> Values \union {None}]]
    <2>1. Blank \in [Pages -> Values \union {None}]
      BY Zenon DEF Blank
    <2> QED BY <1>1, <1>3, <2>1, UploadWorks, Zenon
  <1>6. Clean(k)'
    BY <1>1, <1>2, Zenon DEF Clean
  <1>7. ASSUME NEW j \in pixels \ Victims(k), j # k
        PROVE  /\ j \in Keys /\ Block[j] \intersect Block[k] = {} /\ j \in pixels'
               /\ Clean(j)' <=> Clean(j)
               /\ gl_buffer'[j] = gl_buffer[j]
    <2>1. j \in Keys /\ Block[j] \intersect Block[k] = {} /\ j \notin Overlapping[k]
      BY <1>2, <1>7, OthersApart, Zenon
    <2>2. j \in dirty' <=> j \in dirty
      BY <1>1, <1>7, <2>1, Zenon DEF MarkedWith
    <2>3. page_dirty' \intersect Block[j] = page_dirty \intersect Block[j]
      BY <1>1, <2>1, Zenon
    <2> QED BY <1>1, <1>7, <2>1, <2>2, <2>3, Zenon DEF Clean
  <1>8. \A j, i \in pixels' : j # i => Block[j] \intersect Block[i] = {}
    <2>1. \A j, i \in pixels : j # i => Block[j] \intersect Block[i] = {}
      BY Zenon DEF BeforeBind, CacheInv, PixelsInv
    <2> QED BY <1>1, <1>7, <2>1, Zenon
  <1>9. \A j \in pixels' : Clean(j)' => Agree(gl_buffer'[j], vram, Block[j])
    <2>1. Agree(gl_buffer'[k], vram, Block[k])
      BY <1>1, <1>2, UploadWorks, Zenon
    <2>2. \A j \in pixels : Clean(j) => Agree(gl_buffer[j], vram, Block[j])
      BY Zenon DEF BeforeBind, CacheInv, PixelsInv
    <2> QED BY <1>1, <1>7, <2>1, <2>2, Zenon
  <1>10. \A j \in pixels : Block[j] \intersect Block[k] = {} => j \in pixels' /\ (Clean(j)' <=> Clean(j))
    <2> SUFFICES ASSUME NEW j \in pixels, Block[j] \intersect Block[k] = {}
                 PROVE  j \notin Victims(k) /\ j # k
      BY <1>7, Zenon
    <2> QED BY <1>2, OverlappingIs, KeyTypes, Zenon DEF Victims, BeforeBind, CacheInv, TypeOK
  <1> QED BY <1>1, <1>2, <1>4, <1>5, <1>6, <1>8, <1>9, <1>10, Zenon

\* What it does to the textures: t gets its buffer and shows memory; a texture
\* that is still cached lost its buffer, unless nothing was evicted or uploaded;
\* and the zeta texture of this method keeps its own.
LEMMA BindTexture ==
  ASSUME NEW t, BeforeBind(t), bind_texture_2d(t)
  PROVE  /\ texture_2d' \subseteq Textures
         /\ buffer' \in [Textures -> Keys \union {None}]
         /\ gl_texture' \in [Textures -> [Pages -> Values \union {None}]]
         /\ buffer'[t] = PixelsOf[t] /\ Agree(gl_texture'[t], vram, Area(t))
         /\ \A x \in Textures : buffer'[x] \in {None, PixelsOf[x]}
         /\ \A x \in texture_2d' \ {t} : buffer'[x] # None =>
              x \in texture_2d /\ Clean(PixelsOf[t]) /\ buffer'[x] = buffer[x]
              /\ gl_texture'[x] = gl_texture[x]
         /\ \A x \in Textures \ {t} :
              x = Chosen(surface.zeta, writes.zeta) /\ Area(x) \intersect Area(t) = {} =>
                gl_texture'[x] = gl_texture[x] /\ (buffer[x] = PixelsOf[x] => buffer'[x] = buffer[x])
  <1> DEFINE k == PixelsOf[t]
             fresh == IF t \in texture_2d THEN buffer ELSE [buffer EXCEPT ![t] = None]
  <1>1. PICK v \in Victims(k) \union {None} :
          LET e == Evicted(texture_2d \union {t}, fresh, k, v)
              u == IF MustUpload(k)
                     THEN [ts |-> KeptWithout(e.ts, e.b, k), b |-> BuffersWithout(e.ts, e.b, k)] ELSE e
              image == IF u.b[t] = k THEN gl_texture[t] ELSE Copied(Blank, Block[k], Uploaded(k))
          IN  /\ (v = None) <=> (Victims(k) = {})
              /\ texture_2d' = u.ts
              /\ buffer' = [x \in Textures |-> IF x = t THEN k ELSE IF x \in Live(u.ts) THEN u.b[x] ELSE None]
              /\ gl_texture' = [x \in Textures |-> IF x = t THEN image
                                                   ELSE IF x \in Live(u.ts) THEN gl_texture[x] ELSE Blank]
    BY ZenonT(30) DEF bind_texture_2d
  <1> DEFINE e == Evicted(texture_2d \union {t}, fresh, k, v)
             u == IF MustUpload(k)
                    THEN [ts |-> KeptWithout(e.ts, e.b, k), b |-> BuffersWithout(e.ts, e.b, k)] ELSE e
             image == IF u.b[t] = k THEN gl_texture[t] ELSE Copied(Blank, Block[k], Uploaded(k))
  <1>2. /\ (v = None) <=> (Victims(k) = {})
        /\ texture_2d' = u.ts
        /\ buffer' = [x \in Textures |-> IF x = t THEN k ELSE IF x \in Live(u.ts) THEN u.b[x] ELSE None]
        /\ gl_texture' = [x \in Textures |-> IF x = t THEN image
                                             ELSE IF x \in Live(u.ts) THEN gl_texture[x] ELSE Blank]
    BY <1>1, ZenonT(30)
  <1>3. /\ t \in Textures /\ k \in Keys /\ k # None /\ Block[k] \subseteq Pages /\ Area(t) = Block[k]
        /\ texture_2d \subseteq Textures /\ buffer \in [Textures -> Keys \union {None}]
        /\ gl_texture \in [Textures -> [Pages -> Values \union {None}]]
        /\ \A x \in Textures : buffer[x] \in {None, PixelsOf[x]}
        /\ \A x \in texture_2d : buffer[x] # None => PixelsOf[x] \in pixels
    BY KeyTypes, Zenon DEF BeforeBind, CacheInv, TypeOK, TextureInv, Area
  <1>4. /\ \A x \in Textures : fresh[x] \in {None, PixelsOf[x]} /\ (x # t => fresh[x] = buffer[x])
        /\ t \notin texture_2d => fresh[t] = None
        /\ t \in texture_2d => fresh[t] = buffer[t]
        /\ fresh[t] # None => k \in pixels
    BY <1>3, Zenon
  <1> HIDE DEF fresh
  <1>5. /\ e.ts \subseteq texture_2d \union {t}
        /\ \A x \in Textures : e.b[x] \in {None, fresh[x]}
        /\ Victims(k) = {} => e.ts = texture_2d \union {t} /\ e.b = fresh
        /\ \A x \in Textures : fresh[x] # v => e.b[x] = fresh[x]
        /\ fresh[t] = None => t \in e.ts
    <2>1. CASE Victims(k) = {}
      BY <2>1, Zenon DEF Evicted
    <2>2. CASE Victims(k) # {}
      <3>1. e = [ts |-> KeptWithout(texture_2d \union {t}, fresh, v),
                 b |-> BuffersWithout(texture_2d \union {t}, fresh, v)]
        BY <2>2, Zenon DEF Evicted
      <3> HIDE DEF e
      <3> QED BY <2>2, <3>1, Zenon DEF KeptWithout, BuffersWithout
    <2> QED BY <2>1, <2>2, Zenon
  <1>6. Victims(k) # {} => fresh[t] = None
    BY <1>4, Zenon DEF Victims
  <1> HIDE DEF e
  <1>7. CASE MustUpload(k)
    <2>1. u.ts = KeptWithout(e.ts, e.b, k) /\ u.b = BuffersWithout(e.ts, e.b, k)
      BY <1>7, Zenon
    <2> HIDE DEF u
    <2>2. u.ts \subseteq Textures /\ \A x \in u.ts : u.b[x] = None
      BY <1>3, <1>5, <2>1 DEF KeptWithout, BuffersWithout
    <2>3. \A x \in Textures : u.b[x] \in {None, e.b[x]} /\ (e.b[x] # k => u.b[x] = e.b[x])
      BY <2>1, Zenon DEF BuffersWithout
    <2>4. u.b[t] # k
      <3>1. t \in e.ts
        BY <1>5, <1>6, Zenon
      <3> QED BY <1>3, <2>1, <3>1, Zenon DEF BuffersWithout
    <2>5. image = Copied(Blank, Block[k], Uploaded(k))
      BY <2>4, Zenon
    <2> HIDE DEF image
    <2>6. Agree(image, vram, Area(t)) /\ image \in [Pages -> Values \union {None}]
      <3>1. /\ Agree(Uploaded(k), vram, Area(t))
            /\ Uploaded(k) \in [Pages -> Values \union {None}]
        BY UploadWorks, Zenon
      <3>2. Agree(image, Uploaded(k), Block[k])
        BY <1>3, <2>5, CopiedAgrees, Zenon
      <3>3. Blank \in [Pages -> Values \union {None}]
        BY Zenon DEF Blank
      <3>4. image \in [Pages -> Values \union {None}]
        BY <2>5, <3>1, <3>3, CopiedType, Zenon
      <3> QED BY <1>3, <3>1, <3>2, <3>4, Zenon DEF Agree
    <2>7. buffer'[t] = k /\ Agree(gl_texture'[t], vram, Area(t))
      BY <1>2, <1>3, <2>6, Zenon
    <2>8. gl_texture' \in [Textures -> [Pages -> Values \union {None}]]
      BY <1>2, <1>3, <2>6, Zenon DEF Blank
    <2>9. \A x \in Textures : buffer'[x] \in {None, PixelsOf[x]}
      BY <1>2, <1>4, <1>5, <2>3, Zenon
    <2>10. buffer' \in [Textures -> Keys \union {None}]
      BY <1>2, <2>9, KeyTypes, Zenon
    <2>11. \A x \in texture_2d' \ {t} : buffer'[x] = None
      BY <1>2, <2>2, Zenon
    <2>12. ASSUME NEW x \in Textures \ {t}, x = Chosen(surface.zeta, writes.zeta),
                  Area(x) \intersect Area(t) = {}
           PROVE  gl_texture'[x] = gl_texture[x] /\ (buffer[x] = PixelsOf[x] => buffer'[x] = buffer[x])
      <3>1. x \in Live(u.ts)
        BY <2>12, KeyTypes, Zenon DEF Live, Chosen
      <3>2. ASSUME buffer[x] = PixelsOf[x] PROVE u.b[x] = buffer[x]
        <4>1. PixelsOf[x] \notin Victims(k) /\ PixelsOf[x] # k /\ PixelsOf[x] # None
          BY <1>3, <2>12, KeyTypes, OverlappingIs DEF Victims, Area
        <4>2. fresh[x] = buffer[x] /\ fresh[x] # v
          BY <1>4, <3>2, <4>1, Zenon
        <4> QED BY <1>5, <2>3, <3>2, <4>1, <4>2, Zenon
      <3> QED BY <1>2, <3>1, <3>2, Zenon
    <2> QED BY <1>2, <2>2, <2>7, <2>8, <2>9, <2>10, <2>11, <2>12, Zenon
  <1>8. CASE ~MustUpload(k)
    <2>1. u = e /\ Clean(k) /\ k \in pixels /\ Victims(k) = {}
      BY <1>8, MustUploadClean, Zenon DEF Clean, Victims
    <2>2. u.ts = texture_2d \union {t} /\ u.b = fresh
      BY <1>5, <2>1, Zenon
    <2> HIDE DEF u
    <2>3. Agree(image, vram, Area(t)) /\ image \in [Pages -> Values \union {None}]
      <3>1. CASE fresh[t] = k
        <4>1. t \in texture_2d /\ buffer[t] # None
          BY <1>3, <1>4, <3>1, Zenon
        <4>2. Agree(gl_texture[t], vram, Area(t))
          BY <2>1, <4>1, Zenon DEF BeforeBind, CacheInv, TextureInv
        <4> QED BY <1>3, <2>2, <3>1, <4>2, Zenon
      <3>2. CASE fresh[t] # k
        <4>1. /\ Agree(Uploaded(k), vram, Area(t))
              /\ Uploaded(k) \in [Pages -> Values \union {None}]
          BY UploadWorks, Zenon
        <4>2. image = Copied(Blank, Block[k], Uploaded(k))
          BY <2>2, <3>2, Zenon
        <4> HIDE DEF image
        <4>3. Agree(image, Uploaded(k), Block[k])
          BY <1>3, <4>2, CopiedAgrees, Zenon
        <4>4. Blank \in [Pages -> Values \union {None}]
          BY Zenon DEF Blank
        <4>5. image \in [Pages -> Values \union {None}]
          BY <4>1, <4>2, <4>4, CopiedType, Zenon
        <4> QED BY <1>3, <4>1, <4>3, <4>5, Zenon DEF Agree
      <3> QED BY <3>1, <3>2, Zenon
    <2> HIDE DEF image
    <2>4. /\ buffer'[t] = k /\ Agree(gl_texture'[t], vram, Area(t))
          /\ gl_texture' \in [Textures -> [Pages -> Values \union {None}]]
      BY <1>2, <1>3, <2>3, Zenon DEF Blank
    <2>5. \A x \in Textures : buffer'[x] \in {None, PixelsOf[x]}
      BY <1>2, <1>4, <2>2, Zenon
    <2>6. buffer' \in [Textures -> Keys \union {None}]
      BY <1>2, <2>5, KeyTypes, Zenon
    <2>7. ASSUME NEW x \in Textures \ {t}, x \in Live(u.ts)
          PROVE  gl_texture'[x] = gl_texture[x] /\ buffer'[x] = buffer[x]
      BY <1>2, <1>4, <2>2, <2>7, Zenon
    <2>8. \A x \in texture_2d' : x \in Live(u.ts) /\ x \in texture_2d \union {t}
      BY <1>2, <2>2, Zenon DEF Live
    <2>9. \A x \in Textures : x = Chosen(surface.zeta, writes.zeta) => x \in Live(u.ts)
      BY KeyTypes, Zenon DEF Live, Chosen
    <2> QED BY <1>3, <2>1, <2>4, <2>5, <2>6, <2>7, <2>8, <2>9, Zenon
  <1> QED BY <1>7, <1>8, Zenon
-----------------------------------------------------------------------------
(* Every action keeps the invariant.                                       *)

LEMMA InitCache == Init => CacheInv
  <1> SUFFICES ASSUME Init PROVE CacheInv
    BY Zenon
  <1>1. Blank \in [Pages -> Values \union {None}]
    BY Zenon DEF Blank
  <1>2. TypeOK
    BY <1>1, Zenon DEF Init, TypeOK, NoWrites
  <1>3. Targets(framebuffer) = {} /\ Drawn = {} /\ Bound = {} /\ Covered({}) = {}
    BY Zenon DEF Init, Targets, Drawn, Bound, Covered
  <1>4. TargetInv /\ MemoryInv /\ PixelsInv
    BY <1>3, Zenon DEF Init, TargetInv, MemoryInv, PixelsInv, Agree
  <1>5. TextureInv
    BY Zenon DEF Init, TextureInv
  <1>6. AssertsHold
    BY Zenon DEF Init, AssertsHold
  <1> QED BY <1>2, <1>4, <1>5, <1>6, Zenon DEF CacheInv

\* The methods that download: what is left of the old targets stays coherent.
LEMMA DownloadKeeps ==
  ASSUME Guarded, CacheInv, pc = "idle", NEW zeta, NEW color, Download(zeta, color),
         UNCHANGED <<texVars, want>>,
         Targets(framebuffer) \ Named(zeta, color) \subseteq Drawn', Bound' \subseteq Targets(framebuffer)
  PROVE  /\ WrittenBack(Named(zeta, color)) /\ AssertsHold'
         /\ MemoryInv' /\ PixelsInv' /\ TextureInv' /\ TargetInv'
  <1> DEFINE ts == Named(zeta, color)
  <1>1. WrittenBack(ts)
    BY DownloadWorks, Zenon
  <1>2. Drawn = Targets(framebuffer) /\ Bound = Targets(framebuffer)
    BY Zenon DEF Drawn, Bound
  <1>3. ts \subseteq Drawn
    BY <1>2, Zenon DEF Named
  <1>4. MemoryInv' /\ PixelsInv' /\ TextureInv'
    BY <1>1, <1>2, <1>3, WrittenBackKeeps, Zenon
  <1>5. AssertsHold'
    BY <1>1, Zenon DEF WrittenBack, AssertsHold
  <1>6. UNCHANGED <<pixels, dirty, page_dirty>> /\ \A k : Clean(k)' <=> Clean(k)
    BY <1>1, Zenon DEF WrittenBack, Clean
  <1>7. TargetInv'
    BY <1>2, <1>6, Zenon DEF CacheInv, TargetInv, texVars, Agree, Area
  <1> QED BY <1>1, <1>4, <1>5, <1>7, Zenon

LEMMA SetSurfaceStep ==
  ASSUME Guarded, CacheInv, NEW zeta \in BOOLEAN, NEW color \in BOOLEAN, SetSurface(zeta, color)
  PROVE  CacheInv'
  <1>1. pc = "idle" /\ pc' = "idle" /\ Download(zeta, color)
        /\ UNCHANGED <<texVars, framebuffer, want, unit, writes>>
    BY Zenon DEF SetSurface, Running
  <1>2. Drawn' = Targets(framebuffer) /\ Bound' = Targets(framebuffer)
    BY <1>1, Zenon DEF Drawn, Bound
  <1>3. /\ WrittenBack(Named(zeta, color)) /\ AssertsHold'
        /\ MemoryInv' /\ PixelsInv' /\ TextureInv' /\ TargetInv'
    BY <1>1, <1>2, DownloadKeeps, Zenon
  <1>4. TypeOK'
    BY <1>1, <1>3, Zenon DEF SetSurface, WrittenBack, CacheInv, TypeOK, texVars
  <1> QED BY <1>3, <1>4, Zenon DEF CacheInv

LEMMA WaitStep ==
  ASSUME Guarded, CacheInv, WaitForIdle
  PROVE  CacheInv' /\ vram' = want'
  <1>1. pc = "idle" /\ pc' = "idle" /\ Download(TRUE, TRUE)
        /\ UNCHANGED <<texVars, framebuffer, want, unit, writes, surface>>
    BY Zenon DEF WaitForIdle, Running
  <1>2. Drawn' = Targets(framebuffer) /\ Bound' = Targets(framebuffer) /\ Drawn = Targets(framebuffer)
    BY <1>1, Zenon DEF Drawn, Bound
  <1>3. /\ WrittenBack(Named(TRUE, TRUE)) /\ AssertsHold'
        /\ MemoryInv' /\ PixelsInv' /\ TextureInv' /\ TargetInv'
    BY <1>1, <1>2, DownloadKeeps, Zenon
  <1>4. TypeOK'
    BY <1>1, <1>3 DEF WrittenBack, CacheInv, TypeOK, texVars
  <1>6. Named(TRUE, TRUE) = Targets(framebuffer)
    BY Zenon DEF Named, Targets
  <1>7. vram' = want'
    <2>1. vram' \in [Pages -> Values] /\ want' \in [Pages -> Values]
      BY <1>4, Zenon DEF TypeOK
    <2>2. \A p \in Pages : vram'[p] = want'[p]
      BY <1>1, <1>2, <1>3, <1>6, Zenon DEF WrittenBack, Agree, CacheInv, MemoryInv
    <2> QED BY <2>1, <2>2
  <1> QED BY <1>3, <1>4, <1>7, Zenon DEF CacheInv

LEMMA BeginStep ==
  ASSUME Guarded, CacheInv, NEW zeta \in BOOLEAN, NEW color \in BOOLEAN, NEW clear \in BOOLEAN,
         Begin(zeta, color, clear)
  PROVE  CacheInv'
  <1>1. /\ pc = "idle" /\ Download(TRUE, TRUE) /\ UNCHANGED <<texVars, surface, want, unit>>
        /\ framebuffer' = IF surface.empty THEN None ELSE framebuffer
        /\ pc' = IF surface.empty THEN "units" ELSE "zeta"
        /\ writes' = [zeta |-> zeta, color |-> color, clear |-> clear]
    BY Zenon DEF Begin, Running
  <1>2. Targets(framebuffer') \subseteq Targets(framebuffer) /\ (surface.empty => Targets(framebuffer') = {})
    BY <1>1, Zenon DEF Targets
  <1>3. Drawn' = {} /\ Bound' = {}
    BY <1>1, <1>2, Zenon DEF Drawn, Bound
  <1>4. Named(TRUE, TRUE) = Targets(framebuffer)
    BY Zenon DEF Named, Targets
  <1>5. /\ WrittenBack(Named(TRUE, TRUE)) /\ AssertsHold'
        /\ MemoryInv' /\ PixelsInv' /\ TextureInv' /\ TargetInv'
    BY <1>1, <1>2, <1>3, <1>4, DownloadKeeps, Zenon
  <1>6. TypeOK'
    <2>1. /\ framebuffer' \in [zeta : Zeta \union {None}, color : Color \union {None}] \union {None}
          /\ pc' \in {"units", "zeta"} /\ writes' \in [zeta : BOOLEAN, color : BOOLEAN, clear : BOOLEAN]
      BY <1>1, Zenon DEF CacheInv, TypeOK
    <2> QED BY <1>1, <1>5, <2>1, Zenon DEF WrittenBack, CacheInv, TypeOK, texVars, AssertsHold
  <1> QED BY <1>5, <1>6, Zenon DEF CacheInv

\* A bind keeps the copies coherent, whatever the targets are afterwards.
LEMMA BindKeeps ==
  ASSUME NEW t, BeforeBind(t), bind_texture_2d(t)
  PROVE  /\ PixelsInv' /\ TextureInv'
         /\ buffer'[t] = PixelsOf[t] /\ Clean(PixelsOf[t])' /\ Agree(gl_texture'[t], vram, Area(t))
         /\ page_dirty' = page_dirty \ Area(t)
  <1>1. PixelsInv'
    BY BindPixels, Zenon DEF PixelsInv, BeforeBind
  <1>2. TextureInv'
    <2>1. \A x \in Textures : buffer'[x] \in {None, PixelsOf[x]}
      BY BindTexture, Zenon
    <2>2. ASSUME NEW x \in texture_2d', buffer'[x] # None
          PROVE  PixelsOf[x] \in pixels' /\ (Clean(PixelsOf[x])' => Agree(gl_texture'[x], vram, Area(x)))
      <3>1. CASE x = t
        BY <3>1, BindPixels, BindTexture, Zenon DEF Clean
      <3>2. CASE x # t
        <4>1. /\ x \in texture_2d /\ Clean(PixelsOf[t]) /\ buffer[x] # None /\ x \in Textures
              /\ gl_texture'[x] = gl_texture[x]
          BY <2>2, <3>2, BindTexture
        <4>2. PixelsOf[x] \in pixels /\ PixelsOf[t] \in pixels /\ PixelsOf[x] # PixelsOf[t]
          BY <3>2, <4>1, Zenon DEF BeforeBind, CacheInv, TextureInv, Clean, Guarded, OneFormat
        <4>3. Block[PixelsOf[x]] \intersect Area(t) = {}
          BY <4>2, Zenon DEF BeforeBind, CacheInv, PixelsInv, Area
        <4>4. PixelsOf[x] \in pixels' /\ (Clean(PixelsOf[x])' <=> Clean(PixelsOf[x]))
          BY <4>2, <4>3, BindPixels, Zenon
        <4>5. Clean(PixelsOf[x]) => Agree(gl_texture[x], vram, Area(x))
          BY <4>1, Zenon DEF BeforeBind, CacheInv, TextureInv
        <4> QED BY <4>1, <4>4, <4>5, Zenon
      <3> QED BY <3>1, <3>2, Zenon
    <2> QED BY <2>1, <2>2, Zenon DEF TextureInv, BeforeBind, Area
  <1> QED BY <1>1, <1>2, BindPixels, BindTexture, Zenon

LEMMA NothingDrawn ==
  ASSUME CacheInv, pc \in {"zeta", "color"}
  PROVE  /\ Drawn = {} /\ vram = want
         /\ \A B \in SUBSET Pages : \A f : Agree(f, vram, B) <=> Agree(f, want, B)
  <1>1. Drawn = {}
    BY Zenon DEF Drawn
  <1>2. Covered(Drawn) = {}
    BY <1>1, Zenon DEF Covered
  <1>3. vram = want
    <2>1. vram \in [Pages -> Values] /\ want \in [Pages -> Values]
      BY Zenon DEF CacheInv, TypeOK
    <2>2. \A p \in Pages : vram[p] = want[p]
      BY <1>2, Zenon DEF CacheInv, MemoryInv, Agree
    <2> QED BY <2>1, <2>2
  <1> QED BY <1>1, <1>3, Zenon

LEMMA BindZetaStep ==
  ASSUME Guarded, CacheInv, BindZeta
  PROVE  CacheInv'
  <1>0. PICK t : t = Chosen(surface.zeta, writes.zeta)
    BY Zenon
  <1>1. /\ pc = "zeta" /\ pc' = "color" /\ BindSurface(t) /\ failed = "no"
        /\ UNCHANGED <<vram, surface, framebuffer, unit, writes, failed, want>>
    BY <1>0, Zenon DEF BindZeta, Running
  <1>2. Drawn = {} /\ vram = want /\ Drawn' = {} /\ Bound' = {t} \ {None} /\ Bound = {}
    BY <1>0, <1>1, NothingDrawn, Zenon DEF Drawn, Bound, Chosen
  <1>3. t \in Zeta \union {None} /\ TypeOK
    BY <1>0, Zenon DEF Chosen, CacheInv, TypeOK
  <1>4. MemoryInv'
    BY <1>1, <1>2, Zenon DEF MemoryInv, Agree
  <1>5. AssertsHold'
    BY <1>1, Zenon DEF AssertsHold
  <1>6. CASE t = None
    <2>1. UNCHANGED <<page_dirty, pixVars, texVars>>
      BY <1>1, <1>6, Zenon DEF BindSurface
    <2>2. \A k : Clean(k)' <=> Clean(k)
      BY <2>1, Zenon DEF Clean, pixVars
    <2>3. TypeOK'
      BY <1>1, <1>3, <2>1 DEF TypeOK, pixVars, texVars
    <2>4. TargetInv'
      BY <1>2, <1>6, Zenon DEF TargetInv
    <2>5. PixelsInv' /\ TextureInv'
      BY <1>1, <1>2, <2>1, <2>2 DEF CacheInv, PixelsInv, TextureInv, pixVars, texVars, Agree, Area
    <2> QED BY <1>4, <1>5, <2>3, <2>4, <2>5, Zenon DEF CacheInv
  <1>7. CASE t # None
    <2>1. t \in Textures /\ bind_texture_2d(t) /\ BeforeBind(t)
      BY <1>1, <1>2, <1>3, <1>7, KeyTypes, Zenon DEF BindSurface, BeforeBind
    <2>2. /\ PixelsInv' /\ TextureInv' /\ buffer'[t] = PixelsOf[t] /\ Clean(PixelsOf[t])'
          /\ Agree(gl_texture'[t], vram, Area(t)) /\ page_dirty' = page_dirty \ Area(t)
      BY <2>1, BindKeeps, Zenon
    <2>3. TypeOK'
      BY <1>1, <1>3, <2>1, <2>2, BindPixels, BindTexture DEF TypeOK
    <2>4. TargetInv'
      BY <1>1, <1>2, <2>2, Zenon DEF TargetInv
    <2> QED BY <1>4, <1>5, <2>2, <2>3, <2>4, Zenon DEF CacheInv
  <1> QED BY <1>6, <1>7, Zenon

LEMMA BindColorStep ==
  ASSUME Guarded, CacheInv, BindColor
  PROVE  CacheInv'
  <1>0. PICK z, t : z = Chosen(surface.zeta, writes.zeta) /\ t = Chosen(surface.color, writes.color)
    BY Zenon
  <1> DEFINE now == {z, t} \ {None}
  <1>1. /\ pc = "color" /\ pc' = IF writes.clear THEN "draw" ELSE "units"
        /\ BindSurface(t) /\ failed = "no" /\ framebuffer' = [zeta |-> z, color |-> t]
        /\ UNCHANGED <<vram, surface, unit, writes, failed, want>>
    BY <1>0, Zenon DEF BindColor, Running
  <1>2. Drawn = {} /\ vram = want /\ Bound = {z} \ {None}
    BY <1>0, <1>1, NothingDrawn, Zenon DEF Drawn, Bound
  <1>3. z \in Zeta \union {None} /\ t \in Color \union {None} /\ TypeOK
    BY <1>0, Zenon DEF Chosen, CacheInv, TypeOK
  <1>4. Targets(framebuffer') \subseteq now
    BY <1>1, Zenon DEF Targets
  <1>5. Drawn' = Targets(framebuffer') /\ Bound' = Targets(framebuffer')
    BY <1>1, Zenon DEF Drawn, Bound
  <1>7. MemoryInv' /\ AssertsHold'
    BY <1>1, <1>2, Zenon DEF MemoryInv, Agree, AssertsHold
  <1>10. framebuffer' \in [zeta : Zeta \union {None}, color : Color \union {None}] \union {None}
         /\ pc' \in {"draw", "units"}
    BY <1>1, <1>3, Zenon
  <1>11. CASE t = None
    <2>1. UNCHANGED <<page_dirty, pixVars, texVars>>
      BY <1>1, <1>11, Zenon DEF BindSurface
    <2>2. \A k : Clean(k)' <=> Clean(k)
      BY <2>1, Zenon DEF Clean, pixVars
    <2>3. TypeOK'
      BY <1>1, <1>3, <1>10, <2>1, Zenon DEF TypeOK, pixVars, texVars
    <2>4. TargetInv'
      BY <1>1, <1>2, <1>4, <1>5, <1>11, <2>1, <2>2 DEF CacheInv, TargetInv, texVars, Agree
    <2>5. PixelsInv' /\ TextureInv'
      BY <1>1, <1>2, <2>1, <2>2 DEF CacheInv, PixelsInv, TextureInv, pixVars, texVars, Agree, Area
    <2> QED BY <1>7, <2>3, <2>4, <2>5, Zenon DEF CacheInv
  <1>12. CASE t # None
    <2>1. t \in Textures /\ bind_texture_2d(t) /\ BeforeBind(t)
      BY <1>1, <1>2, <1>3, <1>12, KeyTypes, Zenon DEF BindSurface, BeforeBind
    <2>2. /\ PixelsInv' /\ TextureInv' /\ buffer'[t] = PixelsOf[t] /\ Clean(PixelsOf[t])'
          /\ Agree(gl_texture'[t], vram, Area(t)) /\ page_dirty' = page_dirty \ Area(t)
      BY <2>1, BindKeeps, Zenon
    <2>3. TypeOK'
      BY <1>1, <1>3, <1>10, <2>1, <2>2, BindPixels, BindTexture, ZenonT(30) DEF TypeOK
    <2>4. ASSUME z # None
          PROVE  buffer'[z] = PixelsOf[z] /\ Clean(PixelsOf[z])' /\ Agree(gl_texture'[z], want, Area(z))
      <3>1. z \in Textures /\ Area(z) \intersect Area(t) = {} /\ z # t
        BY <1>3, <1>12, <2>4, KeyTypes, Zenon DEF Guarded, SurfacesApart, Area
      <3>2. buffer[z] = PixelsOf[z] /\ Clean(PixelsOf[z]) /\ Agree(gl_texture[z], want, Area(z))
        BY <1>2, <2>4, Zenon DEF CacheInv, TargetInv
      <3>3. Clean(PixelsOf[z])'
        BY <2>1, <3>1, <3>2, BindPixels, Zenon DEF Clean, Area
      <3>4. gl_texture'[z] = gl_texture[z] /\ buffer'[z] = buffer[z]
        BY <1>0, <2>1, <3>1, <3>2, BindTexture
      <3> QED BY <3>2, <3>3, <3>4, Zenon
    <2>5. TargetInv'
      BY <1>1, <1>2, <1>4, <1>5, <2>2, <2>4, Zenon DEF TargetInv
    <2> QED BY <1>7, <2>2, <2>3, <2>5, Zenon DEF CacheInv
  <1> QED BY <1>11, <1>12, Zenon

LEMMA SetTextureStep ==
  ASSUME CacheInv, SetTexture
  PROVE  CacheInv'
  <1>1. UNCHANGED <<vram, page_dirty, pixVars, texVars, surface, framebuffer, pc, writes, failed, want>>
    BY Zenon DEF SetTexture
  <1>2. unit' \in [set : Images \union {Disabled}, dirty : BOOLEAN,
                   image : [Pages -> Values \union {None}]]
    BY DEF SetTexture, Blank
  <1>3. TypeOK'
    BY <1>1, <1>2 DEF CacheInv, TypeOK, pixVars, texVars
  <1>4. Drawn' = Drawn /\ Bound' = Bound /\ \A k : Clean(k)' <=> Clean(k)
    BY <1>1, Zenon DEF Drawn, Bound, Clean, pixVars, Targets, Chosen
  <1>5. TargetInv' /\ MemoryInv' /\ PixelsInv' /\ TextureInv'
    BY <1>1, <1>4 DEF CacheInv, TargetInv, MemoryInv, PixelsInv, TextureInv, pixVars, texVars, Agree,
                      Area, Covered
  <1>6. AssertsHold'
    BY <1>1, Zenon DEF CacheInv, AssertsHold
  <1> QED BY <1>3, <1>5, <1>6, Zenon DEF CacheInv

LEMMA CopiedSame ==
  ASSUME NEW f, NEW g \in [Pages -> Values], NEW B \in SUBSET Pages, Agree(f, g, B)
  PROVE  Copied(g, B, f) = g
BY Zenon DEF Copied, Agree

LEMMA BindTexturesStep ==
  ASSUME CacheInv, BindTextures
  PROVE  CacheInv'
  <1>1. /\ pc = "units" /\ pc' = "draw"
        /\ unit' \in {unit, [unit EXCEPT !.dirty = FALSE, !.image = Copied(Blank, unit.set.read, vram)]}
        /\ UNCHANGED <<vram, page_dirty, pixVars, texVars, surface, framebuffer, writes, failed, want>>
    BY Zenon DEF BindTextures, Running
  <1>2. TypeOK /\ vram \in [Pages -> Values \union {None}] /\ Blank \in [Pages -> Values \union {None}]
    BY Zenon DEF CacheInv, TypeOK, Blank
  <1>3. Copied(Blank, unit.set.read, vram) \in [Pages -> Values \union {None}]
    BY <1>2, CopiedType, Zenon
  <1>4. unit' \in [set : Images \union {Disabled}, dirty : BOOLEAN,
                   image : [Pages -> Values \union {None}]]
    BY <1>1, <1>2, <1>3, Zenon DEF TypeOK
  <1>5. TypeOK'
    BY <1>1, <1>2, <1>4 DEF TypeOK, pixVars, texVars
  <1>6. Drawn' = Drawn /\ Bound' = Bound /\ \A k : Clean(k)' <=> Clean(k)
    BY <1>1, Zenon DEF Drawn, Bound, Clean, pixVars, Targets
  <1>7. TargetInv' /\ MemoryInv' /\ PixelsInv' /\ TextureInv'
    BY <1>1, <1>6 DEF CacheInv, TargetInv, MemoryInv, PixelsInv, TextureInv, pixVars, texVars, Agree,
                      Area, Covered
  <1>8. AssertsHold'
    BY <1>1, Zenon DEF CacheInv, AssertsHold
  <1> QED BY <1>5, <1>7, <1>8, Zenon DEF CacheInv

LEMMA DrawStep ==
  ASSUME CacheInv, Draw
  PROVE  CacheInv'
  <1>1. PICK W \in SUBSET Covered(Targets(framebuffer)), x \in Values :
          /\ gl_texture' = [t \in Textures |->
               IF t \in Targets(framebuffer)
                 THEN Copied(gl_texture[t], W \intersect Block[PixelsOf[t]], [p \in Pages |-> x])
                 ELSE gl_texture[t]]
          /\ want' = Copied(want, W, [p \in Pages |-> x])
    BY Zenon DEF Draw
  <1>2. /\ pc = "draw" /\ pc' = "idle" /\ writes' = NoWrites
        /\ UNCHANGED <<vram, page_dirty, pixVars, texture_2d, buffer, surface, framebuffer, unit, failed>>
    BY Zenon DEF Draw, Running
  <1>3. /\ Drawn = Targets(framebuffer) /\ Drawn' = Drawn /\ Bound = Drawn /\ Bound' = Drawn
        /\ \A k : Clean(k)' <=> Clean(k)
    BY <1>2, Zenon DEF Drawn, Bound, Clean, pixVars, Targets
  <1>4. TypeOK /\ Targets(framebuffer) \subseteq Textures /\ W \subseteq Pages
    BY TargetTypes, Zenon DEF CacheInv
  <1>5. want' \in [Pages -> Values]
    BY <1>1, <1>4, Zenon DEF TypeOK, Copied
  <1>6. gl_texture' \in [Textures -> [Pages -> Values \union {None}]]
    <2>1. \A t \in Textures : gl_texture[t] \in [Pages -> Values \union {None}]
      BY <1>4, Zenon DEF TypeOK
    <2>2. [p \in Pages |-> x] \in [Pages -> Values \union {None}]
      BY Zenon
    <2>3. \A t \in Textures : Copied(gl_texture[t], W \intersect Block[PixelsOf[t]], [p \in Pages |-> x])
                               \in [Pages -> Values \union {None}]
      BY <2>1, <2>2, CopiedType, ZenonT(30)
    <2> QED BY <1>1, <2>1, <2>3, Zenon
  <1>7. TypeOK'
    BY <1>2, <1>4, <1>5, <1>6 DEF TypeOK, pixVars, NoWrites
  <1>8. TargetInv'
    <2>a. Bound' = Targets(framebuffer) /\ buffer' = buffer /\ Bound = Targets(framebuffer)
      BY <1>2, <1>3, Zenon
    <2>b. \A t \in Bound : buffer[t] = PixelsOf[t] /\ Clean(PixelsOf[t])'
      BY <1>3, Zenon DEF CacheInv, TargetInv
    <2> SUFFICES ASSUME NEW t \in Targets(framebuffer), NEW p \in Area(t)
                 PROVE  gl_texture'[t][p] = want'[p]
      BY <2>a, <2>b, Zenon DEF TargetInv, Agree, Area
    <2>1. buffer[t] = PixelsOf[t] /\ Clean(PixelsOf[t]) /\ gl_texture[t][p] = want[p]
      BY <1>3, Zenon DEF CacheInv, TargetInv, Agree
    <2>2. p \in Pages /\ t \in Textures
      BY <1>4, KeyTypes, Zenon
    <2>3. gl_texture'[t] = Copied(gl_texture[t], W \intersect Block[PixelsOf[t]], [q \in Pages |-> x])
      BY <1>1, <2>2, Zenon
    <2>4. gl_texture'[t][p] = IF p \in W THEN x ELSE gl_texture[t][p]
      BY <2>2, <2>3, Zenon DEF Copied, Area
    <2>5. want'[p] = IF p \in W THEN x ELSE want[p]
      BY <1>1, <2>2, Zenon DEF Copied
    <2> QED BY <2>1, <2>4, <2>5, Zenon
  <1>9. MemoryInv'
    <2>1. \A p \in Pages \ Covered(Drawn) : want'[p] = want[p]
      BY <1>1, <1>3, Zenon DEF Copied
    <2> QED BY <1>2, <1>3, <2>1, Zenon DEF CacheInv, MemoryInv, Agree, Covered
  <1>10. PixelsInv'
    BY <1>2, <1>3, Zenon DEF CacheInv, PixelsInv, pixVars, Agree
  <1>11. TextureInv'
    <2>1. \A t \in Textures \ Drawn : gl_texture'[t] = gl_texture[t]
      BY <1>1, <1>3, Zenon
    <2> QED BY <1>2, <1>3, <1>4, <2>1 DEF CacheInv, TextureInv, pixVars, Agree, Area, TypeOK
  <1>12. AssertsHold'
    BY <1>2, Zenon DEF CacheInv, AssertsHold
  <1> QED BY <1>7, <1>8, <1>9, <1>10, <1>11, <1>12, Zenon DEF CacheInv

LEMMA CpuWriteStep ==
  ASSUME Guarded, CacheInv, CpuWrite
  PROVE  CacheInv'
  <1>1. PICK p \in Pages, x \in Values :
          /\ p \notin InUse
          /\ vram' = [vram EXCEPT ![p] = x] /\ want' = [want EXCEPT ![p] = x]
          /\ page_dirty' = page_dirty \union {p}
    BY Zenon DEF CpuWrite, Guarded
  <1>2. UNCHANGED <<pixVars, texVars, surface, framebuffer, unit, pc, writes, failed>>
    BY Zenon DEF CpuWrite
  <1>3. TypeOK /\ vram \in [Pages -> Values] /\ want \in [Pages -> Values]
    BY Zenon DEF CacheInv, TypeOK
  <1>4. /\ vram' \in [Pages -> Values] /\ want' \in [Pages -> Values] /\ vram'[p] = want'[p]
        /\ \A q \in Pages \ {p} : vram'[q] = vram[q] /\ want'[q] = want[q]
    BY <1>1, <1>3, Zenon
  <1>5. TypeOK'
    BY <1>1, <1>2, <1>3, <1>4 DEF TypeOK, pixVars, texVars
  <1>6. Drawn' = Drawn /\ Bound' = Bound
    BY <1>2, Zenon DEF Drawn, Bound, Targets, Chosen
  <1>7. Bound \subseteq Targets(framebuffer) \union ({surface.zeta, surface.color} \ {None})
    BY Zenon DEF Bound, Drawn, Chosen
  <1>8. \A t \in Bound \union Targets(framebuffer) : p \notin Area(t)
    BY <1>1, <1>7, CoveredBy, Zenon DEF InUse
  <1>9. \A k : Clean(k)' <=> Clean(k) /\ p \notin Block[k]
    BY <1>1, <1>2, Zenon DEF Clean, pixVars
  <1>10. TargetInv'
    <2> SUFFICES ASSUME NEW t \in Bound, NEW q \in Area(t)
                 PROVE  buffer[t] = PixelsOf[t] /\ Clean(PixelsOf[t])' /\ gl_texture[t][q] = want'[q]
      BY <1>2, <1>3, <1>6, TargetTypes, KeyTypes DEF TargetInv, Agree, Area, texVars
    <2>1. t \in Textures /\ q \in Pages /\ q # p /\ p \notin Block[PixelsOf[t]]
      BY <1>3, <1>8, TargetTypes, KeyTypes, Zenon DEF Area
    <2> QED BY <1>4, <1>9, <2>1, Zenon DEF CacheInv, TargetInv, Agree
  <1>11. MemoryInv'
    BY <1>4, <1>6, Zenon DEF CacheInv, MemoryInv, Agree, Covered
  <1>12. \A B \in SUBSET Pages : p \notin B => Agree(vram, vram', B) /\ Agree(want, want', B)
    BY <1>4, Zenon DEF Agree
  <1>13. PixelsInv'
    <2> SUFFICES ASSUME NEW k \in pixels, Clean(k), p \notin Block[k],
                        Agree(gl_buffer[k], vram, Block[k])
                 PROVE  Agree(gl_buffer[k], vram', Block[k])
      BY <1>2, <1>6, <1>9, Zenon DEF CacheInv, PixelsInv, pixVars
    <2>1. Block[k] \subseteq Pages
      BY <1>3, KeyTypes, Zenon DEF TypeOK
    <2> QED BY <1>12, <2>1, Zenon DEF Agree
  <1>14. TextureInv'
    <2> SUFFICES ASSUME NEW t \in texture_2d, p \notin Area(t), Agree(gl_texture[t], vram, Area(t))
                 PROVE  Agree(gl_texture[t], vram', Area(t))
      BY <1>2, <1>6, <1>9, Zenon DEF CacheInv, TextureInv, pixVars, texVars, Area
    <2>1. Area(t) \subseteq Pages
      BY <1>3, KeyTypes, Zenon DEF TypeOK
    <2> QED BY <1>12, <2>1, Zenon DEF Agree
  <1>15. AssertsHold'
    BY <1>2, Zenon DEF CacheInv, AssertsHold
  <1> QED BY <1>5, <1>10, <1>11, <1>13, <1>14, <1>15, Zenon DEF CacheInv

LEMMA StutterStep ==
  ASSUME CacheInv, UNCHANGED vars
  PROVE  CacheInv'
  <1> USE DEF vars, pixVars, texVars
  <1>1. Drawn' = Drawn /\ Bound' = Bound /\ \A k : Clean(k)' <=> Clean(k)
    BY Zenon DEF Drawn, Bound, Clean, Targets, Chosen
  <1>2. TypeOK' /\ AssertsHold'
    BY DEF CacheInv, TypeOK, AssertsHold
  <1>3. TargetInv' /\ MemoryInv' /\ PixelsInv' /\ TextureInv'
    BY <1>1 DEF CacheInv, TargetInv, MemoryInv, PixelsInv, TextureInv, Agree, Area, Covered
  <1> QED BY <1>2, <1>3, Zenon DEF CacheInv

LEMMA CacheStep == Guarded /\ CacheInv /\ [Next]_vars => CacheInv'
  <1> SUFFICES ASSUME Guarded, CacheInv, [Next]_vars PROVE CacheInv'
    BY Zenon
  <1>1. ASSUME NEW zeta \in BOOLEAN, NEW color \in BOOLEAN, SetSurface(zeta, color) PROVE CacheInv'
    BY <1>1, SetSurfaceStep, Zenon
  <1>2. ASSUME NEW zeta \in BOOLEAN, NEW color \in BOOLEAN, NEW clear \in BOOLEAN,
               Begin(zeta, color, clear)
        PROVE  CacheInv'
    BY <1>2, BeginStep, Zenon
  <1>3. CASE WaitForIdle
    BY <1>3, WaitStep, Zenon
  <1> QED BY <1>1, <1>2, <1>3, SetTextureStep, BindZetaStep, BindColorStep, BindTexturesStep, DrawStep,
             CpuWriteStep, StutterStep, Zenon DEF Next

LEMMA CacheInvariant == ASSUME Guarded PROVE Spec => []CacheInv
BY InitCache, CacheStep, PTL DEF Spec
-----------------------------------------------------------------------------
(* What it gives.                                                          *)

LEMMA InvLastWrite == CacheInv => LastWriteWins
  <1> SUFFICES ASSUME CacheInv, NEW p \in Pages
               PROVE  IF p \in Covered(Targets(framebuffer)) /\ pc \in {"idle", "units", "draw"}
                        THEN \A t \in Targets(framebuffer) :
                               p \in Block[PixelsOf[t]] => gl_texture[t][p] = want[p]
                        ELSE vram[p] = want[p]
    BY Zenon DEF LastWriteWins
  <1>1. CASE pc \in {"idle", "units", "draw"}
    <2>1. Drawn = Targets(framebuffer) /\ Bound = Drawn
      BY <1>1, Zenon DEF Drawn, Bound
    <2> QED BY <1>1, <2>1, Zenon DEF CacheInv, TargetInv, MemoryInv, Agree, Area
  <1>2. CASE pc \notin {"idle", "units", "draw"}
    <2>1. Covered(Drawn) = {}
      BY <1>2, Zenon DEF Drawn, Covered
    <2> QED BY <1>2, <2>1, Zenon DEF CacheInv, MemoryInv, Agree
  <1> QED BY <1>1, <1>2, Zenon

LEMMA InvHits == CacheInv => HitsAreFresh
  <1> SUFFICES ASSUME CacheInv PROVE HitsAreFresh
    BY Zenon
  <1>1. TypeOK /\ pixels \subseteq Keys /\ vram \in [Pages -> Values]
    BY Zenon DEF CacheInv, TypeOK
  <1>2. \A j, k \in pixels : j # k => j \notin Overlapping[k]
    BY <1>1, OverlappingIs, Zenon DEF CacheInv, PixelsInv
  <1>3. ASSUME NEW k \in pixels, ~MustUpload(k), \A t \in Targets(framebuffer) : PixelsOf[t] # k
        PROVE  Copied(vram, Block[k], gl_buffer[k]) = vram
    <2>1. Clean(k)
      BY <1>3, MustUploadClean, Zenon
    <2>2. Agree(gl_buffer[k], vram, Block[k])
      BY <1>1, <1>3, <2>1, TargetTypes, Zenon DEF CacheInv, PixelsInv
    <2> QED BY <1>1, <2>2, KeyTypes, CopiedSame, Zenon
  <1> QED BY <1>2, <1>3, Zenon DEF HitsAreFresh

\* Every variable of the cache keeps its type; a page that only OpenGL has is
\* never read as memory.
THEOREM CacheTypes == ASSUME Guarded PROVE Spec => []TypeOK
  <1>1. CacheInv => TypeOK
    BY Zenon DEF CacheInv
  <1> QED BY <1>1, CacheInvariant, PTL

\* No assert of the cache fires: nothing is downloaded over what the CPU has
\* written, the sync of one target does not mark the other, and no target has
\* lost its buffer to an eviction.
THEOREM CacheAsserts == ASSUME Guarded PROVE Spec => []AssertsHold
  <1>1. CacheInv => AssertsHold
    BY Zenon DEF CacheInv
  <1> QED BY <1>1, CacheInvariant, PTL

\* The last write of every page is in the texture of its target while it is
\* bound, and in memory everywhere else, whatever surfaces are set, cleared and
\* evicted.
THEOREM LastWriteKept == ASSUME Guarded PROVE Spec => []LastWriteWins
BY InvLastWrite, CacheInvariant, PTL

\* A cache hit that skips the upload is right: no two cached pixels overlap, and
\* clean pixels equal memory.
THEOREM CacheHits == ASSUME Guarded PROVE Spec => []HitsAreFresh
BY InvHits, CacheInvariant, PTL

\* After a method that waits for the GPU, memory holds everything drawn.
THEOREM WaitTheorem == ASSUME Guarded PROVE Spec => WaitShowsAll
  <1>1. Guarded /\ CacheInv /\ [Next]_vars => [vram' # want' => ~WaitForIdle]_vars
    BY WaitStep, Zenon
  <1> QED BY <1>1, CacheInvariant, PTL DEF Spec, WaitShowsAll
=============================================================================

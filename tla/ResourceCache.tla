--------------------------- MODULE ResourceCache ---------------------------
(***************************************************************************)
(* The resource cache of the GPU, nv2a_gpu_cache.h, and its users: the     *)
(* render targets (pgraph_update_surfaces) and the texture units           *)
(* (pgraph_bind_textures), which read the same dirty bits.                 *)
(*                                                                         *)
(* A surface has up to three copies: the guest's memory, a pixel buffer    *)
(* (Pixels, keyed by its memory block and layout) and an OpenGL texture    *)
(* (Texture2D, keyed by address, size and format).  The dirty bits of      *)
(* pages tell what the CPU has written, a pixel buffer's dirty that memory *)
(* is newer.  draw_dirty is left out as a variable: every method that sets *)
(* it clears it again, so it is the set Drawn within Download.             *)
(*                                                                         *)
(* Memory is in pages, the unit of the dirty bits, and a page's contents   *)
(* are a value; surfaces are page aligned, so what flip and swizzle do     *)
(* within a buffer is left out.  A linear surface has no padding: flip     *)
(* writes pitch * height bytes, its memory block has width * height pixels, *)
(* and here the two are the same.  Render targets have one mipmap level,   *)
(* and there is one texture unit.  dirty.framebuffer is left out:          *)
(* pgraph_update_surfaces sets it before its only reader.  The VCPU thread *)
(* writes memory at any time; the puller thread runs the methods.          *)
(***************************************************************************)
EXTENDS Integers

CONSTANTS
  Pages, Values,
  Keys,           \* of pixels
  Block,          \* the memory block of a key
  Textures,       \* keys of textures
  PixelsOf,       \* the key that bind_texture_2d derives for a texture
  Zeta, Color,    \* the textures that the surface formats give
  Images,         \* what the texture unit is set to: [tested, read], the blocks
                  \* whose dirty bits are tested and whose texels are read
  Cautious,       \* whether the guest keeps to CautiousDraw and InUse
  None

ASSUME KeysAssumption ==
  /\ Block \in [Keys -> SUBSET Pages] /\ \A k \in Keys : Block[k] # {}
  /\ PixelsOf \in [Textures -> Keys]
  /\ Zeta \subseteq Textures /\ Color \subseteq Textures
  /\ None \notin Keys \union Textures \union Values
  /\ Images \subseteq [tested : SUBSET Pages, read : SUBSET Pages]

VARIABLES
  vram, page_dirty,              \* memory and DIRTY_MEMORY_NV2A_GPU_RESOURCE
  pixels, dirty, gl_buffer,      \* cache.pixels: keys, flags and contents
  texture_2d,                    \* cache.texture_2d
  buffer, gl_texture,            \* of every texture: buffer[0] and contents
  surface,                       \* pgraph's registers: [zeta, color, empty]
  framebuffer,                   \* pg->framebuffer: [zeta, color] or None
  unit,                          \* pg->textures[0]: [set, dirty, image]
  pc, writes,                    \* the method that runs, and what it writes
  failed,                        \* the assert that has ended the emulator
  want                           \* what one coherent memory would hold

pixVars == <<pixels, dirty, gl_buffer>>
texVars == <<texture_2d, buffer, gl_texture>>
vars == <<vram, page_dirty, pixVars, texVars, surface, framebuffer, unit, pc,
          writes, failed, want>>

Targets(f) == IF f = None THEN {} ELSE {f.zeta, f.color} \ {None}
Covered(ts) == UNION {Block[PixelsOf[t]] : t \in ts}
\* overlaps
Overlapping == [k \in Keys |-> {j \in Keys : Block[j] \intersect Block[k] # {}}]
\* f with the pages in B taken from g
Copied(f, B, g) == [p \in Pages |-> IF p \in B THEN g[p] ELSE f[p]]

\* A unit that is disabled, or that is not two-dimensional: it is passed over.
Disabled == [tested |-> {}, read |-> {}]

TypeOK ==
  /\ vram \in [Pages -> Values] /\ want \in [Pages -> Values] /\ page_dirty \subseteq Pages
  /\ pixels \subseteq Keys /\ dirty \subseteq pixels
  /\ gl_buffer \in [Keys -> [Pages -> Values \union {None}]]
  /\ texture_2d \subseteq Textures
  /\ buffer \in [Textures -> Keys \union {None}]
  /\ gl_texture \in [Textures -> [Pages -> Values \union {None}]]
  /\ surface \in [zeta : Zeta \union {None}, color : Color \union {None}, empty : BOOLEAN]
  /\ framebuffer \in [zeta : Zeta \union {None}, color : Color \union {None}] \union {None}
  /\ unit \in [set : Images \union {Disabled}, dirty : BOOLEAN,
               image : [Pages -> Values \union {None}]]
  /\ pc \in {"idle", "zeta", "color", "units", "draw"}
  /\ writes \in [zeta : BOOLEAN, color : BOOLEAN, clear : BOOLEAN]
  /\ failed \in {"no", "dirty", "sync", "mark", "null"}

Blank == [p \in Pages |-> None]
NoWrites == [zeta |-> FALSE, color |-> FALSE, clear |-> FALSE]

\* Memory is born dirty; the caches are empty and no surface has been set.
Init ==
  /\ vram \in [Pages -> Values] /\ want = vram /\ page_dirty = Pages
  /\ pixels = {} /\ dirty = {} /\ gl_buffer = [k \in Keys |-> Blank]
  /\ texture_2d = {}
  /\ buffer = [t \in Textures |-> None] /\ gl_texture = [t \in Textures |-> Blank]
  /\ surface = [zeta |-> None, color |-> None, empty |-> TRUE]
  /\ framebuffer = None
  /\ unit = [set |-> Disabled, dirty |-> FALSE, image |-> Blank]
  /\ pc = "idle" /\ writes = NoWrites
  /\ failed = "no"

-----------------------------------------------------------------------------
(***************************************************************************)
(* From the framebuffer to memory: start_framebuffer_to_pixels_download    *)
(* for the targets that a method names, then download_all_pixels_to_memory. *)
(***************************************************************************)

\* The targets of the framebuffer that a method downloads.
Named(zeta, color) ==
  {t \in Targets(framebuffer) : (t = framebuffer.zeta /\ zeta) \/ (t = framebuffer.color /\ color)}

\* What download_pixels_to_memory and the sync that ends it assert, of the
\* cached pixels D that are draw_dirty.
Refusal(D) ==
  {r \in {"dirty", "sync", "mark"} : \E k \in D :
     \/ r = "dirty" /\ k \in dirty
     \/ r = "sync" /\ page_dirty \intersect Block[k] # {}
     \/ r = "mark" /\ Overlapping[k] \intersect (D \ {k}) # {}}

\* Mutants: the download forgets to clear the pixels' own flag; the sync
\* marks entries that are no longer in the cache.
MarkedBy_Itself(D) == dirty \union {j \in pixels : \E k \in D : j \in Overlapping[k]}
MarkedBy_Uncached(D) == (dirty \union {j \in Keys : \E k \in D : j \in Overlapping[k]}) \ D

\* The sync marks everything that overlaps, and the pixels are clean again.
MarkedBy(D) == (dirty \union {j \in pixels : \E k \in D : j \in Overlapping[k]}) \ D

\* The assert that fires; the process ends there.
Fail(reason) == failed' = reason /\ UNCHANGED <<vram, page_dirty, pixVars>>

Download(zeta, color) ==
  LET ts == Named(zeta, color)
      D == {buffer[t] : t \in ts} \intersect pixels
      written == UNION {Block[k] : k \in D}
      read == [k \in Keys |-> IF \E t \in ts : buffer[t] = k
                                THEN Copied(gl_buffer[k], Block[k], gl_texture[CHOOSE t \in ts : buffer[t] = k])
                                ELSE gl_buffer[k]]
  IN  \/ (\E t \in ts : buffer[t] = None) /\ Fail("null")
      \/ (\A t \in ts : buffer[t] # None) /\ \E r \in Refusal(D) : Fail(r)
      \/ /\ (\A t \in ts : buffer[t] # None) /\ Refusal(D) = {}
         /\ gl_buffer' = read
         /\ vram' = [p \in Pages |-> IF p \in written
                                       THEN read[CHOOSE k \in D : p \in Block[k]][p] ELSE vram[p]]
         /\ page_dirty' = page_dirty \ written
         /\ dirty' = MarkedBy(D)
         /\ UNCHANGED <<pixels, failed>>

-----------------------------------------------------------------------------
(***************************************************************************)
(* From memory to a texture: bind_texture_2d, with create_pixels and       *)
(* upload_memory_to_pixels.                                                *)
(***************************************************************************)

\* remove_pixels_from_textures(k), on the cached textures ts whose buffers
\* are b.  foreach_remove drops the entries for which the callback returns
\* TRUE: those that still have a buffer.
KeptWithout(ts, b, k) == {t \in ts : b[t] \in {None, k}}
BuffersWithout(ts, b, k) == [t \in Textures |-> IF t \in ts /\ b[t] = k THEN None ELSE b[t]]

\* The cached pixels that create_pixels throws out to make room for k.
Victims(k) == IF k \in pixels THEN {} ELSE pixels \intersect Overlapping[k]

\* remove_memory_from_pixels_cache visits its victims in the order of a hash
\* table.  The first, v, decides which textures stay: after it no cached
\* texture has a buffer, so the others change nothing.
Evicted(ts, b, k, v) ==
  IF Victims(k) = {} THEN [ts |-> ts, b |-> b]
                     ELSE [ts |-> KeptWithout(ts, b, v), b |-> BuffersWithout(ts, b, v)]

\* upload_memory_to_pixels(k) uploads if the pixels are new, were marked
\* dirty, or if the sync finds a page of theirs dirty.
MustUpload(k) == k \notin pixels \/ k \in dirty \/ page_dirty \intersect Block[k] # {}

\* What the upload's sync marks, beside k itself.
MarkedWith(k) ==
  IF page_dirty \intersect Block[k] # {} THEN (pixels \ Victims(k)) \intersect Overlapping[k] ELSE {}

\* The pixel buffer of k once upload_memory_to_pixels has returned.
Uploaded(k) == IF MustUpload(k) THEN Copied(gl_buffer[k], Block[k], vram) ELSE gl_buffer[k]

\* What is left to read when bind_texture_2d returns: the cached textures, and
\* the zeta texture that the framebuffer is about to use.
Live(ts) == ts \union ({IF writes.zeta THEN surface.zeta ELSE None} \ {None})

bind_texture_2d(t) ==
  \E v \in Victims(PixelsOf[t]) \union {None} :
    LET k == PixelsOf[t]
        fresh == IF t \in texture_2d THEN buffer ELSE [buffer EXCEPT ![t] = None]
        e == Evicted(texture_2d \union {t}, fresh, k, v)
        u == IF MustUpload(k) THEN [ts |-> KeptWithout(e.ts, e.b, k), b |-> BuffersWithout(e.ts, e.b, k)]
                              ELSE e
        image == IF u.b[t] = k THEN gl_texture[t]  \* No update necessary!
                               ELSE Copied(Blank, Block[k], Uploaded(k))
    IN  /\ (v = None) <=> (Victims(k) = {})
        /\ pixels' = (pixels \ Victims(k)) \union {k}
        /\ dirty' = ((dirty \union MarkedWith(k)) \ Victims(k)) \ {k}
        /\ page_dirty' = page_dirty \ Block[k]
        /\ gl_buffer' = [j \in Keys |-> IF j = k THEN Uploaded(k)
                                        ELSE IF j \in Victims(k) THEN Blank ELSE gl_buffer[j]]
        /\ texture_2d' = u.ts
        /\ buffer' = [x \in Textures |-> IF x = t THEN k ELSE IF x \in Live(u.ts) THEN u.b[x] ELSE None]
        /\ gl_texture' = [x \in Textures |-> IF x = t THEN image
                                             ELSE IF x \in Live(u.ts) THEN gl_texture[x] ELSE Blank]

-----------------------------------------------------------------------------
(***************************************************************************)
(* The methods of PGRAPH that use the cache, run by the puller thread.     *)
(***************************************************************************)
Running(l) == failed = "no" /\ pc = l

\* A method that changes the registers of zeta, color or both downloads the old
\* ones first.  The clip and the format change both; while the surface is empty
\* the other registers do not matter.
SetSurface(zeta, color) ==
  /\ Running("idle") /\ (zeta \/ color)
  /\ Download(zeta, color)
  /\ surface' \in
       {s \in [zeta : Zeta \union {None}, color : Color \union {None}, empty : BOOLEAN] :
          /\ ~zeta => s.zeta = surface.zeta
          /\ ~color => s.color = surface.color
          /\ ~(zeta /\ color) => s.empty = surface.empty
          /\ s.empty => s.zeta = None /\ s.color = None}
  /\ UNCHANGED <<texVars, framebuffer, unit, pc, writes, want>>

\* Mutant: only the color surface is written back.
WaitForIdle_ColorOnly ==
  /\ Running("idle")
  /\ Download(FALSE, TRUE)
  /\ UNCHANGED <<texVars, surface, framebuffer, unit, pc, writes, want>>

\* WAIT_FOR_IDLE, FLIP_INCREMENT_WRITE, FLIP_STALL, WRITE_SEMAPHORE_RELEASE
WaitForIdle ==
  /\ Running("idle")
  /\ Download(TRUE, TRUE)
  /\ UNCHANGED <<texVars, surface, framebuffer, unit, pc, writes, want>>

\* SET_TEXTURE_OFFSET and the other registers of the unit.  The old image is
\* forgotten: the unit is dirty, so it is reloaded before it is sampled.
SetTexture ==
  /\ Running("idle")
  /\ \E i \in Images \union {Disabled} : unit' = [set |-> i, dirty |-> TRUE, image |-> Blank]
  /\ UNCHANGED <<vram, page_dirty, pixVars, texVars, surface, framebuffer, pc, writes, failed, want>>

\* What a method binds for a surface register.
Chosen(s, w) == IF w THEN s ELSE None

\* Every guest draws to some surface: a draw that does not would meet
\* assert(0), "Untested code path!".
Drawable(zeta, color) ==
  surface.empty \/ {Chosen(surface.zeta, zeta), Chosen(surface.color, color)} # {None}

\* A cautious guest samples none of the targets it draws to and (see CpuWrite)
\* keeps the CPU off them.
CautiousDraw == Covered({surface.zeta, surface.color} \ {None}) \intersect unit.set.read = {}

\* Mutant: only what the new draw writes is written back.
Begin_NewSurfaces(zeta, color, clear) ==
  /\ Running("idle")
  /\ Drawable(zeta, color)
  /\ IF clear THEN ~surface.empty ELSE Cautious => CautiousDraw
  /\ Download(zeta, color)
  /\ framebuffer' = IF surface.empty THEN None ELSE framebuffer
  /\ pc' = IF surface.empty THEN "units" ELSE "zeta"
  /\ writes' = [zeta |-> zeta, color |-> color, clear |-> clear]
  /\ UNCHANGED <<texVars, surface, unit, want>>

\* SET_BEGIN_END with a primitive, and CLEAR_SURFACE, up to the surfaces.  (A
\* clear of an empty surface, which the viewport does not stop, is left out.)
Begin(zeta, color, clear) ==
  /\ Running("idle")
  /\ Drawable(zeta, color)
  /\ IF clear THEN ~surface.empty ELSE Cautious => CautiousDraw
  /\ Download(TRUE, TRUE)
  /\ framebuffer' = IF surface.empty THEN None ELSE framebuffer
  /\ pc' = IF surface.empty THEN "units" ELSE "zeta"
  /\ writes' = [zeta |-> zeta, color |-> color, clear |-> clear]
  /\ UNCHANGED <<texVars, surface, unit, want>>

BindSurface(t) ==
  IF t = None THEN UNCHANGED <<page_dirty, pixVars, texVars>> ELSE bind_texture_2d(t)

BindZeta ==
  /\ Running("zeta") /\ pc' = "color"
  /\ BindSurface(Chosen(surface.zeta, writes.zeta))
  /\ UNCHANGED <<vram, surface, framebuffer, unit, writes, failed, want>>

BindColor ==
  LET zeta == Chosen(surface.zeta, writes.zeta)
      color == Chosen(surface.color, writes.color)
  IN  /\ Running("color") /\ pc' = IF writes.clear THEN "draw" ELSE "units"
      /\ BindSurface(color)
      /\ framebuffer' = [zeta |-> zeta, color |-> color]
      /\ UNCHANGED <<vram, surface, unit, writes, failed, want>>

\* pgraph_bind_textures, for a primitive only: the image of a unit that is enabled
\* is reloaded, unless neither the registers nor the tested block have changed.
\* The tested block is the pitch * height bytes from the offset; what is read of a
\* swizzled texture, 2^log_width * 2^log_height texels, does not depend on the
\* pitch.  The dirty bits are left as they are.
BindTextures ==
  /\ Running("units") /\ pc' = "draw"
  /\ unit' = IF unit.set # Disabled /\ (unit.dirty \/ page_dirty \intersect unit.set.tested # {})
               THEN [unit EXCEPT !.dirty = FALSE, !.image = Copied(Blank, unit.set.read, vram)] ELSE unit
  /\ UNCHANGED <<vram, page_dirty, pixVars, texVars, surface, framebuffer, writes, failed, want>>

\* SET_BEGIN_END's END, or the clear itself: some pages of the targets change.
Draw ==
  /\ Running("draw") /\ pc' = "idle" /\ writes' = NoWrites
  /\ \E W \in SUBSET Covered(Targets(framebuffer)), x \in Values :
       /\ Targets(framebuffer) # {} => W # {}
       /\ \A p \in W : want[p] # x
       /\ gl_texture' = [t \in Textures |->
            IF t \in Targets(framebuffer)
              THEN Copied(gl_texture[t], W \intersect Block[PixelsOf[t]], [p \in Pages |-> x])
              ELSE gl_texture[t]]
       /\ want' = Copied(want, W, [p \in Pages |-> x])
  /\ UNCHANGED <<vram, page_dirty, pixVars, texture_2d, buffer, surface, framebuffer, unit, failed>>

\* The pages that the GPU may be using.
InUse == Covered(Targets(framebuffer) \union ({surface.zeta, surface.color} \ {None}))
         \union (IF pc = "idle" THEN {} ELSE unit.set.read)

\* Mutant: a path to memory that does not set the bit of this client.
CpuWrite_Unmarked ==
  /\ failed = "no"
  /\ \E p \in Pages, x \in Values :
       /\ p \notin InUse \/ (~Cautious /\ pc = "idle" /\ vram = want)
       /\ vram' = [vram EXCEPT ![p] = x] /\ want' = [want EXCEPT ![p] = x]
  /\ UNCHANGED <<page_dirty, pixVars, texVars, surface, framebuffer, unit, pc, writes, failed>>

\* A store of the CPU, which sets the dirty bits of its page.  The guest is
\* synchronised: it leaves pages in use alone, or at least (if it is not
\* cautious) waits until the GPU is idle and what was drawn is in memory.
CpuWrite ==
  /\ failed = "no"
  /\ \E p \in Pages, x \in Values :
       /\ p \notin InUse \/ (~Cautious /\ pc = "idle" /\ vram = want)
       /\ vram' = [vram EXCEPT ![p] = x] /\ want' = [want EXCEPT ![p] = x]
       /\ page_dirty' = page_dirty \union {p}
  /\ UNCHANGED <<pixVars, texVars, surface, framebuffer, unit, pc, writes, failed>>

Next ==
  \/ \E zeta, color \in BOOLEAN : SetSurface(zeta, color)
  \/ \E zeta, color, clear \in BOOLEAN : Begin(zeta, color, clear)
  \/ WaitForIdle \/ SetTexture \/ BindZeta \/ BindColor \/ BindTextures \/ Draw
  \/ CpuWrite

Spec == Init /\ [][Next]_vars

-----------------------------------------------------------------------------
\* No assert of the cache fires, and no target has lost its buffer, for a
\* cautious guest.
AssertsHold == failed = "no"

\* The assert "If this triggers we didn't sync properly!" of
\* download_pixels_to_memory does not fire for a synchronised guest.
SyncsProperly == failed # "sync"

\* The last write of a page, by CPU or GPU, is where it must be: in the
\* texture of a target that is bound, in memory everywhere else.
LastWriteWins ==
  \A p \in Pages :
    IF p \in Covered(Targets(framebuffer)) /\ pc \in {"idle", "units", "draw"}
      THEN \A t \in Targets(framebuffer) : p \in Block[PixelsOf[t]] => gl_texture[t][p] = want[p]
      ELSE vram[p] = want[p]

\* No two cached pixel buffers share memory; and one that nothing marks as
\* behind memory equals it, unless it is the buffer of a target.  So a cache hit
\* without an upload is right.
HitsAreFresh ==
  /\ \A j, k \in pixels : j # k => j \notin Overlapping[k]
  /\ \A k \in pixels : MustUpload(k) \/ (\E t \in Targets(framebuffer) : PixelsOf[t] = k)
                       \/ Copied(vram, Block[k], gl_buffer[k]) = vram

\* "Texture state and the texture content didn't change? Abort!": what a draw
\* samples, reloaded or not, is the last write of every page that its texture
\* reads.  It fails: a target is written back and its dirty bits cleared, and a
\* unit that was set to the same memory before keeps its old image.
SamplesFresh == pc = "draw" /\ ~writes.clear => Copied(want, unit.set.read, unit.image) = want

\* After a method that waits for the GPU, the CPU reads the last write of
\* every page: a step that leaves memory behind is not such a method.
WaitShowsAll == [][vram' # want' => ~WaitForIdle]_vars
=============================================================================

----------------------------- MODULE TexturePool ------------------------------
(* WgcTexturePool: a few textures that the capture thread copies frames into. *)
(* A frame keeps its texture referenced; the pool gives out only textures     *)
(* nobody else refers to, and never waits or grows.                           *)
EXTENDS Naturals, FiniteSets

\* Mutant: a pool without a texture to spare.
TwoSlots == 2

Capacity == 3

\* Textures of the pool and of the two frames that may outlive the pool they came
\* from.  Their names are none of the three buffers'.
Textures == 3 .. Capacity + 4

\* Ensure: textures made anew are none of those still referenced.
Made(referenced) ==
    CHOOSE pool \in SUBSET (Textures \ referenced) : Cardinality(pool) = Capacity

\* Mutant: use_count() is not looked at.
AnyTexture(pool, referenced) == pool

\* The textures whose use_count() is 1: the pool's own reference.
Free(pool, referenced) == pool \ referenced
=============================================================================

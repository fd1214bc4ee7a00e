---------------------------- MODULE MCOtaService -----------------------------
(* OtaService with two unit contents, images of up to three units, chunks  *)
(* of up to two, and manifests that are sound, unsigned, mismatched with   *)
(* their signature, or of the wrong size.                                  *)
EXTENDS OtaService

CONSTANTS a, b

MCFactory == <<b>>
MCSigned == {<<b>>, <<a, b, a>>, <<a, a>>}
MCManifest(n, d, s) == [size |-> n, digest |-> d, signature |-> s]
MCManifests == {MCManifest(3, <<a, b, a>>, <<a, b, a>>),
                MCManifest(2, <<a, a>>, <<a, a>>),
                MCManifest(2, <<b, a>>, <<b, a>>),
                MCManifest(2, <<b, b>>, <<a, a>>),
                MCManifest(3, <<a, a>>, <<a, a>>),
                MCManifest(0, <<>>, <<>>)}
==============================================================================

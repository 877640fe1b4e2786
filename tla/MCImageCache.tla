---------------------------- MODULE MCImageCache ----------------------------
(* Instances of ImageCache for TLC: a photo every encoding of which is       *)
(* smaller, a drawing of which the full-size AVIF is not, and an icon, which *)
(* is too small to be converted.                                             *)
EXTENDS ImageCache, TLC

CONSTANTS photo, drawing, icon

Drawing == {drawing}
Photo == {photo}
DrawingAndIcon == {drawing, icon}

Smaller ==
    {e \in Encoding : e.of = photo \/ (e.of = drawing /\ (e.format = "webp" \/ e.scaled))}

DesktopOnly == {"desktop"}

\* The slots are interchangeable (safety runs only).
Interchangeable == Permutations(Requests)
=============================================================================

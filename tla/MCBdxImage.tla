----------------------------- MODULE MCBdxImage -----------------------------
(* A small instance of BdxImage for TLC. *)
EXTENDS BdxImage

\* Images of one to three blocks, the last one full or short; files that end
\* early, go on behind the image, or are no image at all.
SmallFiles == [length : {2, 5, 6, 7, 8}, total : {0, 1, 3, 4, 6, 7}]

=============================================================================

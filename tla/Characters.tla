----------------------------- MODULE Characters -----------------------------
(***************************************************************************)
(* What the texts of the tools and of the editor are made of.              *)
(***************************************************************************)

CONSTANTS
    Letters,       \* characters that end no line
    LF             \* the line feed

=============================================================================

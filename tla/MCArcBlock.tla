----------------------------- MODULE MCArcBlock -----------------------------
(* ArcBlock for TLC.                                                       *)
EXTENDS ArcBlock

(* A word of three bits: the smallest that leaves room for three references. *)
ThreeBitStaticCount == -4

=============================================================================

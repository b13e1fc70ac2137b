-------------------------- MODULE MCTemplatePallet --------------------------
(***************************************************************************)
(* Small instances of TemplatePallet.                                      *)
(***************************************************************************)
EXTENDS TemplatePallet, TLC

CONSTANTS alice, bob

\* The fee is 200.  alice can register, or first pass on 204, which lets bob register
\* and leaves her with dust that is burned with her account; bob can buy for 102.
AliceRich == alice :> 205 @@ bob :> 110 @@ PalletAccount :> 0

=============================================================================

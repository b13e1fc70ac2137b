-------------------------- MODULE MCArtistDashboard --------------------------
EXTENDS ArtistDashboard, TLC

CONSTANTS alice, bob

\* alice can pay the fee of 100 twice, or not at all once she has spent 110 elsewhere; bob buys.
MCBalance == alice :> 205 @@ bob :> 10 @@ PalletAccount :> 100

=============================================================================

-------------------------- MODULE MCUserDashboard --------------------------
EXTENDS UserDashboard, TLC

CONSTANTS alice, bob

\* After both have registered.
MCBalance == alice :> 10 @@ bob :> 10 @@ PalletAccount :> 200

=============================================================================

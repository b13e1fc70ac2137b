--------------------------- MODULE MCWalletContext ---------------------------
EXTENDS WalletContext, TLC

CONSTANTS nova, subwallet, shared, own

\* Two wallets that hold one address in common; one holds another as well.
MCAccountsOf == nova :> {shared} @@ subwallet :> {shared, own}

=============================================================================

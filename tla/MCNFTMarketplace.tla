-------------------------- MODULE MCNFTMarketplace --------------------------
EXTENDS NFTMarketplace, TLC

CONSTANTS alice, bob

\* After alice has registered; bob can pay for both NFTs.
MCBalance == alice :> 10 @@ bob :> 20 @@ PalletAccount :> 100

\* Two NFTs at different prices; one NFT.
TwoListed == 0 :> 3 @@ 1 :> 4
OneListed == 0 :> 3

=============================================================================

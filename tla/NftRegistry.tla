----------------------------- MODULE NftRegistry -----------------------------
(***************************************************************************)
(* What the pallet promises about an NFT, without collections, vectors,    *)
(* counters or error codes.  A token is created once, on sale at a price   *)
(* that never changes, by its first owner.  It leaves the market once:     *)
(* sold for exactly its price, given away, or burned.  A token that was    *)
(* sold or given away can only be given away again, and a burned one is    *)
(* never created again.                                                    *)
(***************************************************************************)
EXTENDS Naturals

CONSTANTS Keys,    \* names of tokens
          Owners,  \* accounts that may own a token
          Prices   \* prices a token may be created with

VARIABLES token,   \* the life cycle of every token
          purse    \* the free balance of every account

Unborn == [state |-> "unborn"]
Burned == [state |-> "burned"]
Token(state, owner, price) == [state |-> state, owner |-> owner, price |-> price]

Owned(k) == token[k].state \in {"onsale", "given"}

Create(k, owner, price) ==
    /\ token[k] = Unborn
    /\ token' = [token EXCEPT ![k] = Token("onsale", owner, price)]
    /\ UNCHANGED purse

Give(k, to) ==
    /\ Owned(k)
    /\ token' = [token EXCEPT ![k] = Token("given", to, @.price)]
    /\ UNCHANGED purse

Sell(k, buyer) ==
    /\ token[k].state = "onsale"
    /\ token[k].owner # buyer
    /\ purse[buyer] >= token[k].price
    /\ purse' = [purse EXCEPT ![buyer] = @ - token[k].price,
                              ![token[k].owner] = @ + token[k].price]
    /\ token' = [token EXCEPT ![k] = Token("given", buyer, @.price)]

Burn(k) ==
    /\ token[k].state = "onsale"
    /\ token' = [token EXCEPT ![k] = Burned]
    /\ UNCHANGED purse

\* Payments that are not the price of a token: fees, plain transfers.
Pay ==
    /\ purse' \in [Owners -> Nat]
    /\ UNCHANGED token

Init ==
    /\ token = [k \in Keys |-> Unborn]
    /\ purse \in [Owners -> Nat]

Next ==
    \/ \E k \in Keys :
          \/ \E owner \in Owners, price \in Prices : Create(k, owner, price)
          \/ \E to \in Owners : Give(k, to)
          \/ \E buyer \in Owners : Sell(k, buyer)
          \/ Burn(k)
    \/ Pay

Spec == Init /\ [][Next]_<<token, purse>>
=============================================================================

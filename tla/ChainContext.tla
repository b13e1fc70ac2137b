---------------------------- MODULE ChainContext ----------------------------
(***************************************************************************)
(* The connection to the chain (contexts/ChainContext.tsx).  The effect    *)
(* depends on api: it connects when there is none, and its clean-up closes *)
(* the connection of the render before and takes the api away.  In         *)
(* development React runs the first effect twice, so two connections may   *)
(* be under way at once.  An attempt need not end: the provider tries an   *)
(* unreachable node again and again.                                       *)
(***************************************************************************)
EXTENDS Naturals, FiniteSets

CONSTANTS
    StrictMode,   \* development: effects of the first render run twice
    NoApi

ASSUME ChainAssumption == StrictMode \in BOOLEAN /\ NoApi \notin Nat

VARIABLES
    api,          \* the state: NoApi, or the number of a connection
    isConnecting,
    error,
    effectApi,    \* the api in the closure of the last effect
    initChains,   \* calls of initChain that wait for connectToChain
    open,         \* connections to the node that are open
    made          \* how many there have been

chainContextVars == <<api, isConnecting, error, effectApi, initChains, open, made>>

\* The effect is due.
Rendered == api # effectApi

\* What the header shows.
ChainStatus ==
    IF error THEN "Chain Error"
    ELSE IF isConnecting THEN "Connecting..."
    ELSE IF api = NoApi THEN "Disconnected"
    ELSE "Connected"

------------------------------------------------------------------------------
\* connectToChain returns: setApi, and the finally block.
connected ==
    /\ initChains > 0
    /\ initChains' = initChains - 1
    /\ made' = made + 1
    /\ open' = open \cup {made'}
    /\ api' = made'
    /\ isConnecting' = FALSE
    /\ UNCHANGED <<error, effectApi>>

\* It throws: a query after isReady fails.  The connection it made is left open.
connectFails ==
    /\ initChains > 0
    /\ initChains' = initChains - 1
    /\ made' = made + 1
    /\ open' = open \cup {made'}
    /\ error' = TRUE
    /\ isConnecting' = FALSE
    /\ UNCHANGED <<api, effectApi>>

\* Mutant: a ref lets initChain run once, so that development does not connect twice.
effectStartedOnce ==
    /\ Rendered
    /\ open' = open \ {effectApi}
    /\ api' = IF effectApi # NoApi THEN NoApi ELSE api
    /\ effectApi' = api
    /\ UNCHANGED <<isConnecting, error, initChains, made>>

\* After a render with another api: the clean-up of the last effect, which may take the
\* new api away for the next render, then the effect, with initChain's early return.
effect ==
    /\ Rendered
    /\ open' = open \ {effectApi}
    /\ api' = IF effectApi # NoApi THEN NoApi ELSE api
    /\ initChains' = IF api = NoApi THEN initChains + 1 ELSE initChains
    /\ isConnecting' = IF api = NoApi THEN TRUE ELSE isConnecting
    /\ error' = IF api = NoApi THEN FALSE ELSE error
    /\ effectApi' = api
    /\ UNCHANGED made

------------------------------------------------------------------------------
\* The first effect, once or twice.
ChainInit ==
    /\ api = NoApi /\ effectApi = NoApi
    /\ isConnecting = TRUE /\ error = FALSE
    /\ initChains = IF StrictMode THEN 2 ELSE 1
    /\ open = {} /\ made = 0

ChainNext == connected \/ connectFails \/ effect

------------------------------------------------------------------------------
(***************************************************************************)
(* Once the effects have run, a page without an api shows the failure, or  *)
(* that it is connecting while an attempt is under way, never that it is   *)
(* disconnected with nothing to change it; and the api of a page that has  *)
(* one is not closed.  The clean-up that takes a new api away because of   *)
(* an older one is followed by another attempt.                            *)
(***************************************************************************)
ConnectionShown ==
    Rendered \/ IF api = NoApi
                THEN \/ ChainStatus = "Chain Error"
                     \/ ChainStatus = "Connecting..." /\ initChains > 0
                ELSE api \in open

=============================================================================

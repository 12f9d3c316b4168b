-------------------------------- MODULE Utxo --------------------------------
(***************************************************************************)
(* What the pool promises, without trees, proofs or keys: a ledger of      *)
(* coins over a vault.  A coin is minted once, keeps its asset and value   *)
(* for ever, and is spent at most once; a step burns coins that exist and  *)
(* mints new ones so that, in every asset, what the vault gains is what    *)
(* the coins in circulation gain.                                          *)
(***************************************************************************)
EXTENDS Integers, FiniteSetsExt

CONSTANTS Asset

VARIABLES
    minted,   \* every coin ever minted: [coin -> [asset, value]]
    spent,    \* the coins that were spent
    vault     \* tokens held, per asset

utxoVars == <<minted, spent, vault>>

Worth(coins, ids, a) ==
    MapThenSumSet(LAMBDA c : coins[c].value, {c \in ids : coins[c].asset = a})

Init ==
    /\ minted = [c \in {} |-> 0]
    /\ spent = {}
    /\ vault = [a \in Asset |-> 0]

\* Burn some unspent coins and mint some fresh ones.
Move ==
    LET born == DOMAIN minted' \ DOMAIN minted
        burnt == spent' \ spent IN
    /\ DOMAIN minted \subseteq DOMAIN minted'
    /\ \A c \in DOMAIN minted : minted'[c] = minted[c]
    /\ spent \subseteq spent'
    /\ burnt \subseteq DOMAIN minted
    /\ \A a \in Asset :
          vault'[a] + Worth(minted, burnt, a) = vault[a] + Worth(minted', born, a)

Spec == Init /\ [][Move]_utxoVars

=============================================================================

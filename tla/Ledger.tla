------------------------------- MODULE Ledger -------------------------------
(***************************************************************************)
(* What the wallet functions promise, with no transactions, locks or       *)
(* deliveries: a movement is one step that enters it with the balance it   *)
(* leaves, no debit exceeds the balance, a frozen wallet pays no order,    *)
(* and what Paystack collected is credited at most once.                   *)
(***************************************************************************)
EXTENDS Integers, Sequences

CONSTANTS
    Wallets,
    References, WalletOf, AmountOf,
    Amounts,
    None

VARIABLES
    active,     \* wallets that are not frozen
    money,      \* what each wallet holds
    entries,    \* the movements of each wallet, oldest first
    collected   \* the references of the top-ups Paystack collected

vars == <<active, money, entries, collected>>

Init ==
    /\ active = Wallets
    /\ money = [w \in Wallets |-> 0]
    /\ entries = [w \in Wallets |-> <<>>]
    /\ collected = {}

Move(w, type, amount, reference) ==
    /\ money[w] + amount >= 0
    /\ money' = [money EXCEPT ![w] = @ + amount]
    /\ entries' = [entries EXCEPT ![w] =
          Append(@, [type |-> type, amount |-> amount,
                     after |-> money[w] + amount, reference |-> reference])]
    /\ UNCHANGED <<active, collected>>

Pay(w, a) == w \in active /\ Move(w, "order_payment", -a, None)
Refund(w, a) == Move(w, "order_refund", a, None)
Adjust(w, a) == Move(w, "adjustment", a, None) \/ Move(w, "adjustment", -a, None)

Collect(r) ==
    /\ collected' = collected \cup {r}
    /\ UNCHANGED <<active, money, entries>>

Credited(r) ==
    \E w \in Wallets : \E i \in DOMAIN entries[w] :
        entries[w][i].type = "topup" /\ entries[w][i].reference = r

Credit(r) ==
    /\ r \in collected
    /\ ~Credited(r)
    /\ Move(WalletOf[r], "topup", AmountOf[r], r)

Freeze(w) == active' = active \ {w} /\ UNCHANGED <<money, entries, collected>>
Unfreeze(w) == active' = active \cup {w} /\ UNCHANGED <<money, entries, collected>>

Next ==
    \/ \E w \in Wallets :
          \/ \E a \in Amounts : Pay(w, a) \/ Refund(w, a) \/ Adjust(w, a)
          \/ Freeze(w) \/ Unfreeze(w)
    \/ \E r \in References : Collect(r) \/ Credit(r)

Spec == Init /\ [][Next]_vars
=============================================================================

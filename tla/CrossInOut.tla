------------------------------ MODULE CrossInOut ------------------------------
(***************************************************************************)
(* The cross-in-out pallet (src/pallets/cross-in-out/src/lib.rs): tokens   *)
(* issued on Bifrost for a foreign location (cross_in) and burnt to be     *)
(* released there (cross_out), through a per-currency link between         *)
(* Bifrost accounts and foreign MultiLocations kept in two maps.           *)
(*                                                                         *)
(* Every call is transactional: a failing call is a disabled action. The   *)
(* Filecoin signature check is an input: whether the signature offered     *)
(* verifies for the location. The whitelists are Vecs that are only        *)
(* searched, pushed to when the account is absent, and retained, so they   *)
(* are kept as sets.                                                       *)
(***************************************************************************)
EXTENDS Naturals, TLC

CONSTANTS
  Accounts,     \* Bifrost accounts (signers and linked accounts)
  Locations,    \* foreign MultiLocations
  Currencies,   \* CurrencyIds
  FIL,          \* the one currency whose open registration checks a signature
  Amounts,      \* amount arguments and crossing minimums
  MaxBalance    \* largest free balance of the model

ASSUME FIL \in Currencies

VARIABLES
  registry,     \* CrossCurrencyRegistry: currency -> privileged flag (partial)
  issueWL,      \* IssueWhiteList: currency -> accounts (partial)
  registerWL,   \* RegisterWhiteList: currency -> accounts (partial)
  acc2loc,      \* AccountToOuterMultilocation: currency -> (account -> location)
  loc2acc,      \* OuterMultilocationToAccount: currency -> (location -> account)
  minimum,      \* CrossingMinimumAmount: currency -> [in, out] (partial)
  free          \* free balance: currency -> account -> amount

vars == <<registry, issueWL, registerWL, acc2loc, loc2acc, minimum, free>>

PartialFunctions(S, T) == UNION {[D -> T] : D \in SUBSET S}

TypeOK ==
  /\ registry \in PartialFunctions(Currencies, BOOLEAN)
  /\ issueWL \in PartialFunctions(Currencies, SUBSET Accounts)
  /\ registerWL \in PartialFunctions(Currencies, SUBSET Accounts)
  /\ acc2loc \in [Currencies -> PartialFunctions(Accounts, Locations)]
  /\ loc2acc \in [Currencies -> PartialFunctions(Locations, Accounts)]
  /\ minimum \in PartialFunctions(Currencies, [in : Amounts, out : Amounts])
  /\ free \in [Currencies -> [Accounts -> 0 .. MaxBalance]]

Init ==
  /\ registry = <<>>
  /\ issueWL = <<>>
  /\ registerWL = <<>>
  /\ acc2loc = [c \in Currencies |-> <<>>]
  /\ loc2acc = [c \in Currencies |-> <<>>]
  /\ minimum = <<>>
  /\ free = [c \in Currencies |-> [a \in Accounts |-> 0]]

(* StorageMap::insert and remove on a partial function. *)
Put(f, k, v) == (k :> v) @@ f
Drop(f, k) == [x \in DOMAIN f \ {k} |-> f[x]]

(* The issue or register whitelist of a currency contains the account. *)
Listed(wl, c, a) == c \in DOMAIN wl /\ a \in wl[c]

(***************************************************************************)
(* cross_in: a registered currency with minimums set, an amount at least   *)
(* the cross-in minimum, an issuer on the issue whitelist and a location   *)
(* linked to an account, which is credited.                                *)
(***************************************************************************)
CrossIn(issuer, loc, c, amount) ==
  /\ c \in DOMAIN registry
  /\ c \in DOMAIN minimum
  /\ amount >= minimum[c].in
  /\ Listed(issueWL, c, issuer)
  /\ loc \in DOMAIN loc2acc[c]
  /\ free[c][loc2acc[c][loc]] + amount <= MaxBalance
  /\ free' = [free EXCEPT ![c][loc2acc[c][loc]] = @ + amount]
  /\ UNCHANGED <<registry, issueWL, registerWL, acc2loc, loc2acc, minimum>>

(* Fault variant: the NotEnoughBalance comparison off by one. *)
EnoughBalanceOffByOne(c, a, x) == free[c][a] + 1 >= x

(* NotEnoughBalance: the free balance covers the amount to withdraw. *)
EnoughBalance(c, a, x) == free[c][a] >= x

(***************************************************************************)
(* cross_out: a registered currency with minimums set, an amount at least  *)
(* the cross-out minimum and at most the free balance, a crosser linked to *)
(* a location; the amount is withdrawn.                                    *)
(***************************************************************************)
CrossOut(crosser, c, amount) ==
  /\ c \in DOMAIN registry
  /\ c \in DOMAIN minimum
  /\ amount >= minimum[c].out
  /\ EnoughBalance(c, crosser, amount)
  /\ crosser \in DOMAIN acc2loc[c]
  /\ free' = [free EXCEPT ![c][crosser] = @ - amount]
  /\ UNCHANGED <<registry, issueWL, registerWL, acc2loc, loc2acc, minimum>>

(* Fault variant: the AlreadyExist check on `who` is dropped. *)
NotYetLinkedUnchecked(c, who) == TRUE

(* AlreadyExist: `who` has no location for the currency yet. *)
NotYetLinked(c, who) == who \notin DOMAIN acc2loc[c]

(***************************************************************************)
(* Who may link `who`: on a privileged currency a registrar on the         *)
(* register whitelist; otherwise only `who` itself, for FIL, with a        *)
(* signature that verifies (other currencies fail with                     *)
(* NotSupportedCurrencyId, a missing signature with SignatureNotProvided). *)
(***************************************************************************)
MayRegister(registerer, c, who, sigValid) ==
  IF registry[c]
  THEN Listed(registerWL, c, registerer)
  ELSE /\ registerer = who
       /\ c = FIL
       /\ sigValid

(***************************************************************************)
(* register_linked_account: a registered currency, `who` not linked yet,   *)
(* the registerer allowed; both maps are written.                          *)
(***************************************************************************)
RegisterLinkedAccount(registerer, c, who, loc, sigValid) ==
  /\ c \in DOMAIN registry
  /\ NotYetLinked(c, who)
  /\ MayRegister(registerer, c, who, sigValid)
  /\ acc2loc' = [acc2loc EXCEPT ![c] = Put(@, who, loc)]
  /\ loc2acc' = [loc2acc EXCEPT ![c] = Put(@, loc, who)]
  /\ UNCHANGED <<registry, issueWL, registerWL, minimum, free>>

(***************************************************************************)
(* register_currency_for_cross_in_out: Some(privileged) stores the flag,   *)
(* None removes the currency (mutate_exists with None). The Option<bool>   *)
(* argument is a set of at most one flag.                                  *)
(***************************************************************************)
RegisterCurrency(c, privileged) ==
  /\ registry' = IF privileged = {} THEN Drop(registry, c)
                 ELSE Put(registry, c, CHOOSE p \in privileged : TRUE)
  /\ UNCHANGED <<issueWL, registerWL, acc2loc, loc2acc, minimum, free>>

(***************************************************************************)
(* add_to_issue_whitelist / add_to_register_whitelist: the list is created *)
(* empty when absent; NotAllowed when the account is already in it.        *)
(* remove_...: NotExist unless present, then retain.                       *)
(***************************************************************************)
AddedTo(wl, c, a) ==
  IF c \in DOMAIN wl THEN [wl EXCEPT ![c] = @ \cup {a}] ELSE Put(wl, c, {a})

AddToIssueWhitelist(c, a) ==
  /\ ~Listed(issueWL, c, a)
  /\ issueWL' = AddedTo(issueWL, c, a)
  /\ UNCHANGED <<registry, registerWL, acc2loc, loc2acc, minimum, free>>

RemoveFromIssueWhitelist(c, a) ==
  /\ Listed(issueWL, c, a)
  /\ issueWL' = [issueWL EXCEPT ![c] = @ \ {a}]
  /\ UNCHANGED <<registry, registerWL, acc2loc, loc2acc, minimum, free>>

AddToRegisterWhitelist(c, a) ==
  /\ ~Listed(registerWL, c, a)
  /\ registerWL' = AddedTo(registerWL, c, a)
  /\ UNCHANGED <<registry, issueWL, acc2loc, loc2acc, minimum, free>>

RemoveFromRegisterWhitelist(c, a) ==
  /\ Listed(registerWL, c, a)
  /\ registerWL' = [registerWL EXCEPT ![c] = @ \ {a}]
  /\ UNCHANGED <<registry, issueWL, acc2loc, loc2acc, minimum, free>>

(* set_crossing_minimum_amount. *)
SetCrossingMinimumAmount(c, in, out) ==
  /\ minimum' = Put(minimum, c, [in |-> in, out |-> out])
  /\ UNCHANGED <<registry, issueWL, registerWL, acc2loc, loc2acc, free>>

Next ==
  \/ \E c \in Currencies :
       \/ \E a \in Accounts, loc \in Locations, x \in Amounts : CrossIn(a, loc, c, x)
       \/ \E a \in Accounts, x \in Amounts : CrossOut(a, c, x)
       \/ \E r, who \in Accounts, loc \in Locations, s \in BOOLEAN :
            RegisterLinkedAccount(r, c, who, loc, s)
       \/ \E p \in {{}, {TRUE}, {FALSE}} : RegisterCurrency(c, p)
       \/ \E a \in Accounts :
            \/ AddToIssueWhitelist(c, a) \/ RemoveFromIssueWhitelist(c, a)
            \/ AddToRegisterWhitelist(c, a) \/ RemoveFromRegisterWhitelist(c, a)
       \/ \E in, out \in Amounts : SetCrossingMinimumAmount(c, in, out)

Spec == Init /\ [][Next]_vars

(***************************************************************************)
(* Properties                                                              *)
(***************************************************************************)

(* The account cross_in credits for a location has that location as its    *)
(* own link, the one cross_out reports when it burns that account's        *)
(* tokens: register_linked_account writes both maps together and never     *)
(* relinks an account (AlreadyExist).                                      *)
CrossInTargetLinksBack ==
  \A c \in Currencies : \A loc \in DOMAIN loc2acc[c] :
    loc2acc[c][loc] \in DOMAIN acc2loc[c] /\ acc2loc[c][loc2acc[c][loc]] = loc

(* Every linked account is the one its location maps to: the two link      *)
(* maps are inverse, so a location is linked to at most one account (the   *)
(* tests expect AlreadyExist when a location is linked again).             *)
LinkedAccountMapsInverse ==
  \A c \in Currencies : \A a \in DOMAIN acc2loc[c] :
    acc2loc[c][a] \in DOMAIN loc2acc[c] /\ loc2acc[c][acc2loc[c][a]] = a

=============================================================================

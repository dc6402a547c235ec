--------------------------- MODULE AddressMarket ---------------------------
(***************************************************************************)
(* The AAAddressMarket contract, which sells wallet accounts for GAS,      *)
(* composed with the wallet's account book.  A listing holds the account   *)
(* in the wallet's market escrow; buyers deposit the exact price and one   *)
(* of them settles, which pays the seller and moves the ownership.         *)
(*                                                                         *)
(* A market call is one step, except SettleListing: paying the seller      *)
(* runs the seller's contract (onNEP17Payment), which may call any         *)
(* operation before the settlement continues with the listing it read at   *)
(* the start.  SettleListing pushes a frame, SettleClose pops it, and a    *)
(* failed assertion in between aborts the transaction and restores the     *)
(* state before it.                                                        *)
(*                                                                         *)
(* Of the wallet's operations only those that touch owners or escrows take *)
(* part; the others leave both alone (the lemma CustodyStutter).           *)
(***************************************************************************)
EXTENDS SmartWallet, Sequences, FiniteSetsExt

CONSTANTS
  AAMarket,      \* the script hash of this market
  Price,         \* prices between MinListingPrice and MaxListingPrice
  Funds,         \* GAS of each principal at the start
  MaxNesting     \* bound on settlements open at once in one transaction

ASSUME MarketAssumption ==
  /\ AAMarket \in Market /\ AAMarket \notin Owner
  /\ Zero \notin Owner
  /\ IsFiniteSet(Owner) /\ IsFiniteSet(Listing)
  /\ Listing \subseteq Nat \ {0}
  /\ Price \subseteq Nat \ {0}
  /\ Funds \in Nat /\ MaxNesting \in Nat

VARIABLES
  nextListingId,   \* Prefix_NextListingId
  listing,         \* Listing records by id
  pending,         \* pending payment of each principal per listing
  pendingCount,    \* number of pending payments per listing
  gas,             \* GAS balances of the principals and the market
  allowedAA,       \* the wallet is an allowlisted AA core
  settling,        \* frames of the settlements in progress, newest last
  saved            \* state to restore if the running transaction aborts

marketVars == <<nextListingId, listing, pending, pendingCount, gas, allowedAA,
                settling, saved>>
vars == <<walletVars, marketVars>>

ListingRecord ==
  [account: Account, seller: Owner, price: Price,
   status: {"active", "sold", "cancelled"}, buyer: Owner \cup {Zero}]

Frame == [id: Listing, listing: ListingRecord, payer: Owner, newOwner: Owner]

ASSUME NoListingAssumption == None \notin ListingRecord

MarketTypeOK ==
  /\ TypeOK
  /\ nextListingId \in Nat
  /\ listing \in [Listing -> ListingRecord \cup {None}]
  /\ pending \in [Listing -> [Owner -> Price \cup {0}]]
  /\ pendingCount \in [Listing -> Nat]
  /\ gas \in [Owner \cup {AAMarket} -> Nat]
  /\ allowedAA \in BOOLEAN
  /\ settling \in Seq(Frame) /\ Len(settling) <= MaxNesting

MarketInit ==
  /\ Init
  /\ nextListingId = 1
  /\ listing = [l \in Listing |-> None]
  /\ pending = [l \in Listing |-> [p \in Owner |-> 0]]
  /\ pendingCount = [l \in Listing |-> 0]
  /\ gas = [p \in Owner \cup {AAMarket} |-> IF p = AAMarket THEN 0 ELSE Funds]
  /\ allowedAA = FALSE
  /\ settling = <<>>
  /\ saved = <<>>

-----------------------------------------------------------------------------
escrowVars == <<now, account, updates, calls, markers, escrow, cancelInitiated,
                configs, history>>
funds      == <<pending, pendingCount, gas>>
frames     == <<settling, saved>>
Idle       == settling = <<>>

Active(l) == listing[l] # None /\ listing[l].status = "active"

PutPendingPayment(l, payer, amount) ==
  /\ pending' = [pending EXCEPT ![l][payer] = amount]
  /\ pendingCount' = [pendingCount EXCEPT ![l] = @ + 1]

(* The count entry is deleted, never negative. *)
ClearPendingPayment_KeepCount(l, payer) ==
  /\ pending' = [pending EXCEPT ![l][payer] = 0]
  /\ UNCHANGED pendingCount
ClearPendingPayment(l, payer) ==
  /\ pending' = [pending EXCEPT ![l][payer] = 0]
  /\ pendingCount' = [pendingCount EXCEPT ![l] = IF @ <= 1 THEN 0 ELSE @ - 1]

(* The native GAS contract: a transfer without the funds for it fails. *)
Transfer_Unchecked(from, to, amount) ==
  gas' = [p \in DOMAIN gas |->
            IF from = to THEN gas[p]
            ELSE IF p = from THEN gas[p] - amount
            ELSE IF p = to THEN gas[p] + amount ELSE gas[p]]
Transfer(from, to, amount) ==
  /\ gas[from] >= amount
  /\ gas' = [p \in DOMAIN gas |->
               IF from = to THEN gas[p]
               ELSE IF p = from THEN gas[p] - amount
               ELSE IF p = to THEN gas[p] + amount ELSE gas[p]]

NoPendingPayment_Skipped(l) == TRUE
NoPendingPayment(l) == pendingCount[l] = 0

-----------------------------------------------------------------------------
SetAllowedAA(allowed) ==
  /\ allowedAA' = allowed
  /\ UNCHANGED <<escrowVars, nextListingId, listing, funds, frames>>

(* The seller is whoever the wallet names as owner; the wallet arms the     *)
(* escrow for this market and the fresh id.                                 *)
CreateListing(a, price) ==
  LET l == nextListingId
      seller == account[a].backupOwner
  IN
  /\ allowedAA
  /\ account[a] # None
  /\ l \in Listing
  /\ EnterMarketEscrow(a, seller, AAMarket, l)
  /\ nextListingId' = l + 1
  /\ listing' = [listing EXCEPT ![l] =
        [account |-> a, seller |-> seller, price |-> price,
         status |-> "active", buyer |-> Zero]]
  /\ UNCHANGED <<funds, allowedAA, frames>>

UpdateListingPrice(l, price) ==
  /\ Active(l)
  /\ NoPendingPayment(l)
  /\ listing' = [listing EXCEPT ![l].price = price]
  /\ UNCHANGED <<escrowVars, nextListingId, funds, allowedAA, frames>>

(* The wallet's CancelMarketEscrow calls back AbandonListing, which writes  *)
(* the status this action writes again.                                     *)
CancelListing(l) ==
  /\ Active(l)
  /\ NoPendingPayment(l)
  /\ CancelMarketEscrow(listing[l].account, AAMarket, l)
  /\ listing' = [listing EXCEPT ![l].status = "cancelled"]
  /\ UNCHANGED <<nextListingId, funds, allowedAA, frames>>

(* OnNEP17Payment: a buyer deposits the price. *)
AcceptsPayment_Overwrites(l, payer) == Active(l)
AcceptsPayment(l, payer) == Active(l) /\ pending[l][payer] = 0

OnNEP17Payment(l, payer, amount) ==
  /\ AcceptsPayment(l, payer)
  /\ amount = listing[l].price
  /\ Transfer(payer, AAMarket, amount)
  /\ PutPendingPayment(l, payer, amount)
  /\ UNCHANGED <<escrowVars, nextListingId, listing, allowedAA, frames>>

RefundPendingPayment(l, payer) ==
  /\ pending[l][payer] > 0
  /\ ClearPendingPayment(l, payer)
  /\ Transfer(AAMarket, payer, pending[l][payer])
  /\ UNCHANGED <<escrowVars, nextListingId, listing, allowedAA, frames>>

(* What an aborted transaction puts back.  Time stands still in it, and no  *)
(* nested call touches the plugins' storage or the staged replacements      *)
(* other than by a settlement.                                              *)
Snapshot ==
  [account |-> account, updates |-> updates, calls |-> calls,
   markers |-> markers, escrow |-> escrow, cancelInitiated |-> cancelInitiated,
   configs |-> configs, history |-> history, nextListingId |-> nextListingId,
   listing |-> listing, pending |-> pending, pendingCount |-> pendingCount,
   gas |-> gas, allowedAA |-> allowedAA]

(* First half of SettleListing, up to the payout of the seller. *)
SettleListing(l, payer, newOwner) ==
  /\ Active(l)
  /\ Len(settling) < MaxNesting
  /\ pending[l][payer] = listing[l].price
  /\ ClearPendingPayment(l, payer)
  /\ Transfer(AAMarket, listing[l].seller, listing[l].price)
  /\ settling' = Append(settling, [id |-> l, listing |-> listing[l],
                                   payer |-> payer, newOwner |-> newOwner])
  /\ saved' = IF Idle THEN Snapshot ELSE saved
  /\ UNCHANGED <<escrowVars, nextListingId, listing, allowedAA>>

(* Second half: the wallet hands the account over, and the listing as it    *)
(* was read in the first half is written back as sold.                      *)
SoldListing_Reread(frame) ==
  [listing[frame.id] EXCEPT !.status = "sold", !.buyer = frame.payer]
SoldListing(frame) ==
  [frame.listing EXCEPT !.status = "sold", !.buyer = frame.payer]

SettleClose ==
  LET frame == settling[Len(settling)] IN
  /\ ~Idle
  /\ SettleMarketEscrow(frame.listing.account, AAMarket, frame.id, frame.newOwner)
  /\ listing' = [listing EXCEPT ![frame.id] = SoldListing(frame)]
  /\ settling' = SubSeq(settling, 1, Len(settling) - 1)
  /\ saved' = IF Len(settling) = 1 THEN <<>> ELSE saved
  /\ UNCHANGED <<nextListingId, funds, allowedAA>>

Abort ==
  /\ ~Idle
  /\ account' = saved.account
  /\ pendingVerifier' = saved.updates[1] /\ pendingHook' = saved.updates[2]
  /\ pendingVerifierCall' = saved.calls[1] /\ pendingHookCall' = saved.calls[2]
  /\ escapeLastInitiated' = saved.markers[1] /\ metadata' = saved.markers[2]
  /\ escrow' = saved.escrow /\ cancelInitiated' = saved.cancelInitiated
  /\ verifierConfig' = saved.configs[1] /\ hookConfig' = saved.configs[2]
  /\ platform' = saved.history[1] /\ tenure' = saved.history[2]
  /\ nextListingId' = saved.nextListingId /\ listing' = saved.listing
  /\ pending' = saved.pending /\ pendingCount' = saved.pendingCount
  /\ gas' = saved.gas /\ allowedAA' = saved.allowedAA
  /\ settling' = <<>> /\ saved' = <<>>
  /\ UNCHANGED now

(* AbandonListing: the wallet tells the market that the owner has taken the *)
(* account back.  The callback names the listing and the account, and       *)
(* leaves a retired listing alone.                                          *)
AbandonListing_Ignored(a, l) == UNCHANGED listing
AbandonListing(a, l) ==
  listing' = IF Active(l) /\ listing[l].account = a
             THEN [listing EXCEPT ![l].status = "cancelled"] ELSE listing

(* The owner's timelocked way out, with its notification of the market. *)
ForceCancelListing_WaitsForPayments(a, signer) ==
  /\ escrow[a] # None
  /\ escrow[a].market = AAMarket
  /\ NoPendingPayment(escrow[a].listing)
  /\ AbandonListing(a, escrow[a].listing)
  /\ ForceCancelMarketEscrow(a, signer)
  /\ UNCHANGED <<nextListingId, funds, allowedAA, frames>>
ForceCancelListing(a, signer) ==
  /\ escrow[a] # None
  /\ escrow[a].market = AAMarket
  /\ AbandonListing(a, escrow[a].listing)
  /\ ForceCancelMarketEscrow(a, signer)
  /\ UNCHANGED <<nextListingId, funds, allowedAA, frames>>

-----------------------------------------------------------------------------
MarketNext ==
  \/ \E allowed \in BOOLEAN : SetAllowedAA(allowed)
  \/ \E a \in Account, price \in Price : CreateListing(a, price)
  \/ \E l \in Listing, price \in Price : UpdateListingPrice(l, price)
  \/ \E l \in Listing : CancelListing(l)
  \/ \E l \in Listing, p \in Owner :
       \/ \E amount \in Price : OnNEP17Payment(l, p, amount)
       \/ RefundPendingPayment(l, p)
       \/ \E o \in Owner : SettleListing(l, p, o)
  \/ SettleClose
  \/ Abort
  \/ \E a \in Account, o \in Owner : ForceCancelListing(a, o)

(* The wallet's own operations on owners and escrows. *)
OwnershipNext ==
  /\ \/ Idle /\ Tick
     \/ \E S \in SUBSET Account, o \in Owner : RegisterAccounts(S, o)
     \/ \E a \in Account :
          \/ RegistrarNext(a)
          \/ \E o \in Owner : InitiateMarketEscrowCancel(a, o)
  /\ UNCHANGED marketVars

SaleNext == MarketNext \/ OwnershipNext

MarketSpec == MarketInit /\ [][SaleNext]_vars

(* Blocks keep coming, a transaction ends, and an owner who may force the   *)
(* escrow open sends that transaction some day.  Nothing is assumed of      *)
(* buyers, of the market's admin or of anyone else.                         *)
Fairness ==
  /\ SF_vars(Idle /\ Tick /\ UNCHANGED marketVars)
  /\ WF_vars(SettleClose \/ Abort)
  /\ \A a \in Account, o \in Owner : SF_vars(Idle /\ ForceCancelListing(a, o))

FairMarketSpec == MarketSpec /\ Fairness

-----------------------------------------------------------------------------
(* Safety *)

SumOver(f, S) == MapThenSumSet(LAMBDA x : f[x], S)

(* The market holds exactly the deposits it owes: no settlement, refund or  *)
(* callback in between pays out a deposit twice or strands one.             *)
PaymentsBacked ==
  gas[AAMarket] = SumOver([l \in Listing |-> SumOver(pending[l], Owner)], Listing)

(* The counter that gates price changes and cancellation counts the         *)
(* deposits that exist.                                                     *)
PendingCountExact ==
  \A l \in Listing :
    pendingCount[l] = Cardinality({p \in Owner : pending[l][p] > 0})

(* A deposit on an open listing is its price: SettleListing can use it.     *)
PaymentsMatchPrice ==
  \A l \in Listing, p \in Owner :
    Active(l) /\ pending[l][p] > 0 => pending[l][p] = listing[l].price

(* No order of deposits, settlements, refunds and callbacks loses sight of  *)
(* a deposit: it is backed, counted and usable while its listing is open.   *)
DepositsInOrder ==
  MarketTypeOK /\ PaymentsBacked /\ PendingCountExact /\ PaymentsMatchPrice

(* Between transactions a listing is open exactly while the wallet holds    *)
(* its account in escrow for it: there is neither a listing that cannot     *)
(* settle nor an escrow that no listing can end.                            *)
ListedIffEscrowed ==
  Idle =>
    /\ \A l \in Listing : Active(l) =>
         LET a == listing[l].account IN
         /\ escrow[a] # None
         /\ escrow[a].market = AAMarket /\ escrow[a].listing = l
         /\ listing[l].seller = account[a].backupOwner
    /\ \A a \in Account : escrow[a] # None /\ escrow[a].market = AAMarket =>
         Active(escrow[a].listing) /\ listing[escrow[a].listing].account = a

(* Between transactions every principal's GAS is accounted for: what he no  *)
(* longer holds is on deposit or bought him an account at the listed price, *)
(* what he gained was paid to him for one.                                  *)
SalesPaidAtPrice ==
  Idle => \A p \in Owner :
    LET bought == [l \in Listing |->
          IF listing[l] # None /\ listing[l].buyer = p THEN listing[l].price ELSE 0]
        sold == [l \in Listing |->
          IF listing[l] # None /\ listing[l].status = "sold" /\ listing[l].seller = p
          THEN listing[l].price ELSE 0]
        deposits == [l \in Listing |-> pending[l][p]]
    IN gas[p] + SumOver(deposits, Listing) + SumOver(bought, Listing)
         = Funds + SumOver(sold, Listing)

-----------------------------------------------------------------------------
(* Liveness *)

(* An owner who starts to cancel the escrow gets the account out of it,     *)
(* unless he restarts the timer himself: buyers who deposit and never       *)
(* settle, which blocks CancelListing, cannot hold him.  (MaxTime bounds    *)
(* the behaviours, so the timelock must end before it.)                     *)
OwnerRecoversAccount ==
  \A a \in Account, t \in Time :
    t + CancelTimelock <= MaxTime /\ t > 0 =>
      (Idle /\ escrow[a] # None /\ cancelInitiated[a] = t
         ~> cancelInitiated[a] > t \/ (Idle /\ escrow[a] = None))
=============================================================================

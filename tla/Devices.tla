------------------------------- MODULE Devices -------------------------------
(***************************************************************************)
(* Who a device speaks for: web/src/lib/tokens.ts and the deal's page of   *)
(* web/src/routes/Deal.tsx up to the freeze of the terms.  The phone the   *)
(* deal was started on keeps a token of either party and is passed from    *)
(* hand to hand; another phone holds the token its link carried.  A page   *)
(* shows what it last loaded, loads overlap with taps, and a confirmation  *)
(* says whether the device could have made the other one as well.          *)
(*                                                                         *)
(* A page is the record [url, role, held, view, handover, coming]: the     *)
(* token in its address, the states of its hooks, and the answers on their *)
(* way to it.                                                              *)
(***************************************************************************)
EXTENDS Deal, FiniteSets

CONSTANTS
    Phones,        \* devices
    FirstPhone,    \* the one the deal was started on
    Prices,        \* what a party may correct the price to; the page takes only positive ones
    MaxComing,     \* bound: loads under way on a page at once
    MaxDealVersion \* bound: no taps on a deal of this version

ASSUME DevicesAssumption ==
    FirstPhone \in Phones /\ MaxComing \in Nat /\ MaxDealVersion \in Nat

VARIABLES
    deal,      \* the row of `deals`
    stored,    \* the tokens in a device's localStorage
    active,    \* the role it was last used for
    pages,     \* the deal's page on each device, NoPage while closed
    frozenAs,  \* `same_device` of the terms_frozen attestation
    accepted   \* history: the confirmations accepted since the last correction

deviceVars == <<deal, stored, active, pages, frozenAs, accepted>>

NoRole == "none"
NoView  == [role |-> NoRole]
NoPage  == [url |-> NoRole, role |-> NoRole, held |-> {}, view |-> NoView,
            handover |-> NoRole, coming |-> {}]

Other(p) == CHOOSE q \in Parties : q # p

\* Start.tsx: both tokens are stored, the buyer's last; the link to share is the
\* seller's.
DevicesInit ==
    /\ stored = [d \in Phones |-> IF d = FirstPhone THEN Parties ELSE {}]
    /\ active = [d \in Phones |-> IF d = FirstPhone THEN "buyer" ELSE NoRole]
    /\ pages = [d \in Phones |-> NoPage]
    /\ frozenAs = "unfrozen"
    /\ accepted = {}

\* heldRoles().
HeldRoles(d) == stored[d]

\* getActiveRole().
ActiveRole(d) ==
    IF active[d] \in stored[d] THEN active[d]
    ELSE IF stored[d] = {} THEN NoRole
    ELSE CHOOSE p \in stored[d] : p = "buyer" \/ "buyer" \notin stored[d]

\* The token a page uses: that of its role if there is one, else the address's.
TokenOf(d) ==
    IF pages[d].role \in stored[d] THEN pages[d].role ELSE pages[d].url

\* DealView::build, as far as the page looks at it.
ViewFor(row, p) ==
    [role |-> p, state |-> row.state, terms |-> row.terms, revision |-> row.termsRevision,
     you |-> ConfirmedBy(row, p), they |-> ConfirmedBy(row, Other(p))]

\* An answer under way: the view, whether it ends an act() that keeps the
\* buttons busy, and whom the phone is passed to after it.
Coming(view, busy, handover) == [view |-> view, busy |-> busy, handover |-> handover]

\* The page rid of an answer, and passed on if that was what it waited for.
Passed(pg, c) ==
    [pg EXCEPT !.coming = @ \ {c},
               !.handover = IF c.handover = NoRole THEN @ ELSE c.handover]

-----------------------------------------------------------------------------
\* The page is opened, from the capture page or through the shared link.
OpenPage(d) ==
    /\ pages[d] = NoPage
    /\ pages' = [pages EXCEPT ![d] =
                    [NoPage EXCEPT !.url = IF d = FirstPhone THEN NoRole ELSE "seller",
                                   !.role = ActiveRole(d), !.held = HeldRoles(d)]]
    /\ UNCHANGED <<deal, stored, active, frozenAs, accepted>>

\* load(): on opening, every four seconds, when the token changes.
Load(d) ==
    /\ TokenOf(d) # NoRole
    /\ Cardinality(pages[d].coming) < MaxComing
    /\ pages' = [pages EXCEPT ![d].coming =
                    @ \cup {Coming(ViewFor(deal, TokenOf(d)), FALSE, NoRole)}]
    /\ UNCHANGED <<deal, stored, active, frozenAs, accepted>>

\* The answer comes in, in whatever order: the token is filed under the role the
\* server says it is, and the page becomes that role's, in one rendering.
Loaded(d) ==
    /\ \E c \in pages[d].coming :
          /\ stored' = [stored EXCEPT ![d] = @ \cup {c.view.role}]
          /\ active' = [active EXCEPT ![d] = c.view.role]
          /\ pages' = [pages EXCEPT ![d] =
                          [Passed(@, c) EXCEPT !.role = c.view.role, !.view = c.view,
                                               !.held = HeldRoles(d)']]
    /\ UNCHANGED <<deal, frozenAs, accepted>>

\* An answer that never comes; the phone is passed on all the same.
LoadFails(d) ==
    /\ \E c \in pages[d].coming :
          pages' = [pages EXCEPT ![d] = Passed(@, c)]
    /\ UNCHANGED <<deal, stored, active, frozenAs, accepted>>

\* Mutation of SwitchTo: the page keeps showing the deal as the other saw it.
SwitchInPlace(d, p) ==
    /\ active' = [active EXCEPT ![d] = p]
    /\ pages' = [pages EXCEPT ![d] = [@ EXCEPT !.role = p, !.handover = NoRole]]
    /\ UNCHANGED <<deal, stored, frozenAs, accepted>>

SwitchTo(d, p) ==
    /\ active' = [active EXCEPT ![d] = p]
    /\ pages' = [pages EXCEPT ![d] =
                    [@ EXCEPT !.role = p, !.handover = NoRole, !.view = NoView]]
    /\ UNCHANGED <<deal, stored, frozenAs, accepted>>

Showing(d) == pages[d].view # NoView

\* "Switch to ...", and "I'm ..." on the screen that passes the phone on.
Switch(d) ==
    /\ Showing(d)
    /\ \/ pages[d].handover # NoRole /\ SwitchTo(d, pages[d].handover)
       \/ /\ pages[d].handover = NoRole /\ pages[d].held = Parties
          /\ SwitchTo(d, Other(pages[d].view.role))

\* "Not yet - keep looking at it".
NotYet(d) ==
    /\ Showing(d) /\ pages[d].handover # NoRole
    /\ pages' = [pages EXCEPT ![d].handover = NoRole]
    /\ UNCHANGED <<deal, stored, active, frozenAs, accepted>>

\* The page is left or loaded anew; answers under way are for nobody.
ClosePage(d) ==
    /\ pages[d] # NoPage
    /\ pages' = [pages EXCEPT ![d] = NoPage]
    /\ UNCHANGED <<deal, stored, active, frozenAs, accepted>>

\* The buttons under a reading that awaits this party's confirmation.
MayTap(d) ==
    /\ Showing(d) /\ pages[d].handover = NoRole
    /\ pages[d].view.state = "PendingAgreement" /\ ~pages[d].view.you
    /\ \A c \in pages[d].coming : ~c.busy
    /\ deal.version < MaxDealVersion

\* act(): the command goes out with the page's token.  Lost or refused it leaves
\* the deal as it is; either way the page goes on to load and to hand over.
Act(d, cmd, handover) ==
    LET token == TokenOf(d) IN
    \E row \in {deal} \cup {t.deal : t \in Transition(deal, cmd, token, 0)} :
        /\ deal' = row
        /\ pages' = [pages EXCEPT ![d].coming =
                        @ \cup {Coming(ViewFor(row, token), TRUE, handover)}]
        /\ UNCHANGED <<stored, active>>

Moved == deal' # deal

\* Mutation of SameDevice: only a confirmation the phone is passed on after.
SameDeviceAtHandover(d) == pages[d].held = Parties /\ ~pages[d].view.they

\* bothOnThisDevice, the `same_device` of a confirmation.
SameDevice(d) == pages[d].held = Parties

\* "Confirm": the revision on the screen, and whether this device holds both
\* tokens.  The phone is passed on if it does and the other has yet to confirm.
Confirm(d) ==
    LET v    == pages[d].view
        both == SameDevice(d)
    IN  /\ MayTap(d)
        /\ Act(d, [name |-> "ConfirmTerms", revision |-> v.revision],
               IF both /\ ~v.they THEN Other(v.role) ELSE NoRole)
        /\ accepted' = IF Moved
                       THEN accepted \cup {[device |-> d, role |-> TokenOf(d),
                                            shown |-> v.role, terms |-> v.terms]}
                       ELSE accepted
        /\ frozenAs' = IF Moved /\ deal'.state = "Agreed"
                       THEN (IF both THEN "one device" ELSE "independent")
                       ELSE frozenAs

\* "That is not what we agreed", and "No - ... is buying": the terms on the
\* screen are sent back with the price, or the two names, changed.
Swapped(t) == [t EXCEPT !.buyer = t.seller, !.seller = t.buyer]

Correct(d) ==
    LET t == pages[d].view.terms IN
    /\ MayTap(d)
    /\ \E new \in {[t EXCEPT !.price = n] : n \in Prices} \cup {Swapped(t)} :
          Act(d, [name |-> "CorrectTerms", terms |-> new], NoRole)
    /\ accepted' = IF Moved THEN {} ELSE accepted
    /\ UNCHANGED frozenAs

DevicesNext ==
    \E d \in Phones :
        \/ OpenPage(d) \/ ClosePage(d)
        \/ Load(d) \/ Loaded(d) \/ LoadFails(d)
        \/ Switch(d) \/ NotYet(d)
        \/ Confirm(d) \/ Correct(d)

-----------------------------------------------------------------------------
(* Correctness.                                                            *)

\* Nobody confirms in the other's name: whatever loads and switches cross each
\* other, an accepted confirmation is by the party the screen said was looking,
\* and what gets frozen is what the screens showed.
ActsAsShown ==
    /\ \A a \in accepted : a.role = a.shown
    /\ deal.state = "Agreed" => \A a \in accepted : a.terms = deal.terms

\* "Both confirmations from one device are recorded as such on the receipt - it
\* does not pretend they were independent" (Deal.tsx).
OneDeviceIsLabelled ==
    (frozenAs = "independent") =>
        /\ {a.role : a \in accepted} = Parties
        /\ Cardinality({a.device : a \in accepted}) = 2
=============================================================================

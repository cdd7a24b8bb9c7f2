------------------------------ MODULE Portfolio ------------------------------
(***************************************************************************)
(* The loop of `xlm-ns portfolio` over the pages of an owner's names       *)
(* (cli/src/commands/portfolio.rs, list_registrations_by_owner_page of the *)
(* SDK).  Names are the numbers 1 .. total, and the owner's names do not   *)
(* change while they are listed.  A page that times out is asked for again *)
(* with half the size, which is kept for the pages after it.               *)
(***************************************************************************)
EXTENDS Integers, Sequences

CONSTANTS
    MaxNames,   \* bound: names an owner has
    MaxBatch    \* bound: page size, limit and page number given by the user

ASSUME PortfolioAssumption == MaxNames \in Nat /\ MaxBatch \in Nat

VARIABLE listing

Unset == -1         \* an option that was not given

MIN_BATCH_SIZE == 1

Least(a, b) == IF a < b THEN a ELSE b
Most(a, b)  == IF a > b THEN a ELSE b

NoListing == [at |-> "off", total |-> 0, batch |-> 1, limit |-> Unset, page |-> Unset,
              cursor |-> 0, size |-> 1, names |-> << >>]

PortfolioInit == listing = NoListing

-----------------------------------------------------------------------------
\* One page, by list_registrations_by_owner_page of the SDK: the items after
\* the cursor, and the next cursor.
owner_page(total, cursor, limit) ==
    LET start == Least(cursor, total)
        end   == Least(start + limit, total)
    IN  [items |-> [i \in 1 .. end - start |-> start + i],
         next  |-> IF end < total THEN end ELSE Unset]

\* PortfolioOptions::normalized, and the cursor of the page asked for.
StartListing(total, batch_size, limit, page) ==
    LET batch == Most(batch_size, MIN_BATCH_SIZE)
    IN  /\ listing = NoListing
        /\ listing' = [at |-> "fetch", total |-> total, batch |-> batch, limit |-> limit,
                       page |-> page, size |-> batch, names |-> << >>,
                       cursor |-> IF page = Unset THEN 0 ELSE (Most(page, 1) - 1) * batch]

\* Faulty variant: the last page is asked for in full.
requested_full(limit, fetched, size) == size

requested(limit, fetched, size) ==
    IF limit = Unset THEN size ELSE Least(limit - fetched, size)

LimitReached ==
    /\ listing.at = "fetch"
    /\ listing.limit = Len(listing.names)
    /\ listing' = [listing EXCEPT !.at = "done"]

Asking == listing.at = "fetch" /\ listing.limit # Len(listing.names)

FetchPage ==
    LET got == owner_page(listing.total, listing.cursor,
                          requested(listing.limit, Len(listing.names), listing.size))
    IN  /\ Asking
        /\ listing' = [listing EXCEPT
                          !.names = @ \o got.items,
                          !.at = IF listing.page # Unset \/ got.next = Unset THEN "done" ELSE "fetch",
                          !.cursor = IF listing.page # Unset \/ got.next = Unset THEN @ ELSE got.next]

halved(size) == Most(size \div 2, MIN_BATCH_SIZE)

PageTimesOut ==
    /\ Asking
    /\ listing' = IF listing.size > MIN_BATCH_SIZE
                  THEN [listing EXCEPT !.size = halved(@)]
                  ELSE [listing EXCEPT !.at = "failed"]

EndListing ==
    /\ listing.at \in {"done", "failed"}
    /\ listing' = NoListing

FetchStep == LimitReached \/ FetchPage \/ PageTimesOut

PortfolioStep ==
    \/ \E total \in 0 .. MaxNames, batch_size \in 0 .. MaxBatch,
          limit, page \in {Unset} \cup (0 .. MaxBatch) :
          StartListing(total, batch_size, limit, page)
    \/ FetchStep
    \/ EndListing

PortfolioSpec == PortfolioInit /\ [][PortfolioStep]_listing

-----------------------------------------------------------------------------
\* Whatever the page size and however often it is halved on the way, every name
\* is listed once and in order, up to the limit; a page that is asked for by its
\* number, and does not time out, has the names of that page.
PortfolioExact ==
    LET cap == IF listing.limit = Unset THEN listing.total ELSE listing.limit
        slice(first, n) == [i \in 1 .. Most(Least(n, listing.total - first), 0) |-> first + i]
    IN  listing.at = "done" /\ (listing.page = Unset \/ listing.size = listing.batch) =>
            listing.names =
                IF listing.page = Unset THEN slice(0, cap)
                ELSE slice((Most(listing.page, 1) - 1) * listing.batch, Least(listing.batch, cap))

\* The loop ends although any page may time out: the size cannot be halved for
\* ever, and a page that follows leaves fewer names.
ListingEnds == (listing.at = "fetch") ~> (listing.at \in {"done", "failed"})
=============================================================================

----------------------------- MODULE EmailHistory -----------------------------
(***************************************************************************)
(* src/src/public/email-history.js: the addresses a visitor has queried,   *)
(* newest first, as pure functions of the list the page holds.  What they  *)
(* do to the storage of the browser is in PublicPage, which calls them.    *)
(***************************************************************************)
EXTENDS Integers, SequencesExt

CONSTANTS Addresses,   \* what may be in the field or in the storage
          Refused,     \* those sanitizeEmail turns down although the field takes them,
                       \* and what else the storage may hold (not a string)
          KeyOf,       \* emailKey: two spellings of a mailbox have one key
          Limit        \* EMAIL_HISTORY_LIMIT

ASSUME HistoryAssumption ==
  /\ Refused \subseteq Addresses
  /\ DOMAIN KeyOf = Addresses
  /\ Limit \in Nat \ {0}

SameKey(a, b) == KeyOf[a] = KeyOf[b]

\* A turn of the loop of sanitizeHistory: of each key the first spelling is taken, and
\* nothing any more once the list is full.
Taken(list, value) ==
  IF \/ value \in Refused
     \/ \E n \in DOMAIN list : SameKey(list[n], value)
     \/ Len(list) = Limit
  THEN list ELSE Append(list, value)

\* The list after 0, 1, 2 ... turns.
Collected(values) ==
  LET list[n \in 0 .. Len(values)] ==
        IF n = 0 THEN <<>> ELSE Taken(list[n - 1], values[n])
  IN list

Sanitized(values) == Collected(values)[Len(values)]

\* filter: of the first 0, 1, 2 ... entries those with another key.
Spared(entries, email) ==
  LET list[n \in 0 .. Len(entries)] ==
        IF n = 0 THEN <<>>
        ELSE IF SameKey(entries[n], email) THEN list[n - 1]
        ELSE Append(list[n - 1], entries[n])
  IN list

Without(history, email) == Spared(Sanitized(history), email)[Len(Sanitized(history))]

\* Mutant: another spelling of the same mailbox is kept.
RememberedBySpelling(history, email) ==
  IF email \in Refused THEN Sanitized(history)
  ELSE LET all == <<email>> \o SelectSeq(Sanitized(history), LAMBDA item : item # email)
       IN SubSeq(all, 1, IF Len(all) < Limit THEN Len(all) ELSE Limit)

\* rememberSuccessfulEmail
Remembered(history, email) ==
  IF email \in Refused THEN Sanitized(history)
  ELSE LET all == <<email>> \o Without(history, email)
       IN SubSeq(all, 1, IF Len(all) < Limit THEN Len(all) ELSE Limit)

\* What every list is that sanitizeHistory returns, and the other functions keep.
WellFormed(history) ==
  /\ Len(history) <= Limit
  /\ \A n \in DOMAIN history : history[n] \in Addresses \ Refused
  /\ \A m, n \in DOMAIN history : SameKey(history[m], history[n]) => m = n
===============================================================================

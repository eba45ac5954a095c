-------------------------------- MODULE Backoff --------------------------------
(***************************************************************************)
(* How long a Workspace waits after its n-th failure in a row              *)
(* (backoffDuration of internal/controller/admission.go), with durations   *)
(* in machine words, against what its comment says.                        *)
(***************************************************************************)
EXTENDS Integers

WordBits == 6      \* bound: a duration is a signed word of so many bits
MaxCount == 9      \* bound: failures in a row, more than a word has bits

MaxWord == 2^(WordBits - 1) - 1

Words == -MaxWord - 1 .. MaxWord

\* Two's complement.
Wrap(n) == ((n + MaxWord + 1) % 2^WordBits) - MaxWord - 1

\* Go's division rounds towards zero.
Half(n) == IF n >= 0 THEN n \div 2 ELSE -((-n) \div 2)

backoffDuration(failures, base, max) ==
  LET n == IF failures < 1 THEN 1 ELSE failures
      \* d after i rounds of the loop, or max once the loop returned it.
      d[i \in 0..n - 1] ==
        IF i = 0 THEN [val |-> base, ret |-> FALSE]
        ELSE IF d[i - 1].ret THEN d[i - 1]
        ELSE IF d[i - 1].val > Half(max) THEN [val |-> max, ret |-> TRUE]
        ELSE [val |-> Wrap(2 * d[i - 1].val), ret |-> FALSE]
      last == d[n - 1]
  IN IF ~last.ret /\ last.val > max THEN max ELSE last.val

\* Doubling from the base, capped, for every count of failures and every cap,
\* one below the base, zero, negative or the largest word included: the loop
\* never doubles past the largest word (admission.go:132-150).
ASSUME BackoffRule ==
  \A failures \in 0..MaxCount, base \in 1..MaxWord, max \in Words :
    LET n == IF failures < 1 THEN 1 ELSE failures
        uncapped == base * 2^(n - 1)
    IN backoffDuration(failures, base, max) = IF uncapped > max THEN max ELSE uncapped
=============================================================================

---------------------------- MODULE RedactErrors ----------------------------
(***************************************************************************)
(* redact.Error: an error has a message, which may hold a secret, and      *)
(* causes.  The result must hold no secret, and what held none must still  *)
(* be found by errors.Is and errors.As.                                    *)
(*                                                                         *)
(* errs[n] is the n-th error that was made: its causes were made before.   *)
(* The calls of Error for the causes return before the call for the error, *)
(* and no call depends on another one's order, so a step is the return of  *)
(* the call for the next error.  String and URL are taken to remove every  *)
(* secret of a text and to leave other texts alone.                        *)
(***************************************************************************)
EXTENDS Integers, Sequences

CONSTANT Errors         \* what errs may be

Original(n) == [of |-> n, copy |-> FALSE]   \* the error itself
Copy(n) == [of |-> n, copy |-> TRUE]        \* what Error makes in its place

\* leaf; wrap (Unwrap() error); multi (Unwrap() []error); url (*url.Error); as (a
\* leaf whose As method yields a *url.Error, here its cause).
Kinds == {"leaf", "wrap", "multi", "url", "as"}

Values(Refs) == [kind : Kinds, secret : BOOLEAN, comparable : BOOLEAN, causes : Seq(Refs)]

ASSUME ErrorsAssumption ==
    \A es \in Errors :
        /\ es \in Seq(Values({Original(m) : m \in 1..Len(es)}))
        /\ \A n \in DOMAIN es : \A i \in DOMAIN es[n].causes : es[n].causes[i].of < n

VARIABLES errs, result  \* result[n]: which error Error returned, and its value

errorVars == <<errs, result>>

ErrorInit == errs \in Errors /\ result = <<>>

----------------------------------------------------------------------------
\* A set of errors with all that can be reached from it.
Closed(S) == \A n \in S : \A i \in DOMAIN errs[n].causes : errs[n].causes[i].of \in S

\* errors.As finds a *url.Error.
HasURL(n) ==
    \A S \in SUBSET DOMAIN errs : n \in S /\ Closed(S) => \E m \in S : errs[m].kind = "url"

SameError(left, right) == left = right /\ errs[right.of].comparable

\* Fault: only the message decides whether an error is rebuilt.
SafeMessage(err, safeCauses) == ~err.secret

\* Nothing of the error had to be changed.
Unchanged(err, safeCauses) ==
    ~err.secret /\ \A i \in DOMAIN safeCauses : SameError(safeCauses[i], err.causes[i])

\* sanitizedError, sanitizedMultiError and the copy of sanitizeURLError.
Rebuilt(err, safeCauses) ==
    [kind |-> CASE err.kind \in {"leaf", "as"} -> IF safeCauses = <<>> THEN "leaf" ELSE "wrap"
                [] err.kind \notin {"leaf", "as"} -> err.kind,
     secret |-> FALSE,
     comparable |-> err.kind # "multi",     \* a struct with a slice is not
     causes |-> safeCauses]

Error ==
    LET n   == Len(result) + 1
        err == errs[n]
        safeCauses == [i \in DOMAIN err.causes |-> result[err.causes[i].of].ref]
    IN  /\ n <= Len(errs)
        /\ result' = Append(result,
              IF ~HasURL(n) /\ Unchanged(err, safeCauses)
              THEN [ref |-> Original(n), value |-> err]
              ELSE [ref |-> Copy(n), value |-> Rebuilt(err, safeCauses)])
        /\ UNCHANGED errs

ErrorSpec == ErrorInit /\ [][Error]_errorVars

----------------------------------------------------------------------------
\* An error without a secret anywhere in it, and without URL errors, which are
\* always copied; below it all is comparable, so that Error sees it unchanged.
Safe(n) ==
    \E S \in SUBSET DOMAIN errs :
        /\ n \in S /\ Closed(S)
        /\ \A m \in S :
              /\ ~errs[m].secret /\ errs[m].kind # "url"
              /\ \A i \in DOMAIN errs[m].causes : errs[errs[m].causes[i].of].comparable

\* The result of redact.Error holds no secret, and what Unwrap finds in it is, at
\* every place, the result for the cause that was there: so no secret can be
\* reached, however it was nested.  Every safe error is still the same object,
\* so that callers can go on to test for it, and every URL error is still found,
\* but only as a copy.
OnlySecretsLost ==
    \A n \in 1..Len(result) :
        LET old == errs[n]
            new == result[n].value
        IN  /\ ~new.secret
            /\ new.causes = [i \in DOMAIN old.causes |-> result[old.causes[i].of].ref]
            /\ new.kind = "url" <=> old.kind = "url"
            /\ old.kind = "url" => result[n].ref = Copy(n)
            /\ Safe(n) => result[n].ref = Original(n)
=============================================================================

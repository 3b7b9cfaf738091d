------------------------------ MODULE MgCgiEnv ------------------------------
(***************************************************************************)
(* The environment of a CGI program (server/mongoose.c): addenv puts       *)
(* VARIABLE=VALUE strings one behind another into a block of fixed size,   *)
(* and a pointer to each into an array of fixed size.  The block is what   *)
(* Windows takes, the array what everybody else does.  Of a string are     *)
(* told apart the letters of its name, the dashes, the "=" and the rest.   *)
(***************************************************************************)
EXTENDS Integers, Sequences

CONSTANTS
  Size,     \* CGI_ENVIRONMENT_SIZE
  MaxVars,  \* MAX_CGI_ENVIR_VARS
  Strings,  \* that are formatted
  MaxAdded  \* bound: calls of addenv

Chars == {"a", "A", "-", "_", "=", "?"}   \* "?" is any other

MgCgiEnvAssumption ==
  /\ Size \in Nat /\ MaxVars \in Nat /\ MaxAdded \in Nat /\ Size > 2 /\ MaxVars > 2
  /\ \A s \in Strings : s \in Seq(Chars)

VARIABLES pc,    \* what is added: "request", "headers" or "user", then "done"
          buf, len, vars, nvars,
          kept   \* the strings that were added
state == <<pc, buf, len, vars, nvars, kept>>

End == "0"
Upper(c) == CASE c = "a" -> "A" [] c = "-" -> "_" [] OTHER -> c

Init == /\ pc = "request" /\ buf = [i \in 0 .. Size - 1 |-> "?"]
        /\ len = 0 /\ vars = [i \in 0 .. MaxVars - 1 |-> -2] /\ nvars = 0
        /\ kept = <<>>

-----------------------------------------------------------------------------
Space == Size - len - 2

\* mg_vsnprintf: as much of the string as there is space for, and an end
Formatted(s) == IF Len(s) < Space THEN s ELSE SubSeq(s, 1, Space - 1)
Put(b, s) == [i \in DOMAIN b |->
                IF i >= len /\ i < len + Len(s) THEN s[i - len + 1]
                ELSE IF i = len + Len(s) THEN End ELSE b[i]]

\* What does not fit, or is empty, or would be one variable too many, is left out.
Added(s) == Len(Formatted(s)) > 0 /\ Len(Formatted(s)) + 1 < Space /\ nvars < MaxVars - 2

\* addenv
AddEnv(s, b) ==
  /\ buf' = b
  /\ IF Added(s)
       THEN /\ vars' = [vars EXCEPT ![nvars] = len] /\ nvars' = nvars + 1
            /\ len' = len + Len(Formatted(s)) + 1
            /\ kept' = Append(kept, s)
       ELSE UNCHANGED <<vars, nvars, len, kept>>

\* Up to the "=" or the end, wherever addenv has formatted the header
Capitals(b) ==
  LET stops == {i \in DOMAIN b : i >= len /\ b[i] \in {"=", End}} IN
  [i \in DOMAIN b |-> IF i >= len /\ \A j \in stops : i < j THEN Upper(b[i]) ELSE b[i]]

AddRequest == /\ pc = "request"
              /\ \E s \in Strings : AddEnv(s, Put(buf, Formatted(s)))
              /\ pc' \in {"request", "headers"}

AddHeader == /\ pc = "headers"
             /\ \E s \in Strings : AddEnv(s, Capitals(Put(buf, Formatted(s))))
             /\ UNCHANGED pc

AddUser == /\ pc \in {"headers", "user"} /\ pc' = "user"
           /\ \E s \in Strings : AddEnv(s, Put(buf, Formatted(s)))

Finish ==
  /\ pc \in {"headers", "user"} /\ pc' = "done"
  /\ vars' = [vars EXCEPT ![nvars] = -1] /\ nvars' = nvars + 1
  /\ buf' = [buf EXCEPT ![len] = End] /\ len' = len + 1
  /\ UNCHANGED kept

Next == \/ (Len(kept) < MaxAdded /\ (AddRequest \/ AddHeader \/ AddUser))
        \/ Finish
Spec == Init /\ [][Next]_state

-----------------------------------------------------------------------------
(* Properties.                                                             *)

StringAt(i) ==
  LET end == CHOOSE j \in i .. Size - 1 : buf[j] = End /\ \A k \in i .. j - 1 : buf[k] # End IN
  [k \in 1 .. end - i |-> buf[i + k - 1]]
\* t, but for letters of its name, what is before the "=", that are capitals
IsButCapitals(s, t) ==
  /\ Len(s) = Len(t)
  /\ \A k \in DOMAIN t :
       s[k] = t[k] \/ (s[k] = Upper(t[k]) /\ \A j \in 1 .. k : t[j] # "=")

\* The asserts of addenv and prepare_cgi_environment: there is always space for the
\* second of the two ends, and an entry for the NULL (mongoose.c:3150-3170, 3282-3287).
EnvFits ==
  /\ IF pc = "done" THEN nvars < MaxVars /\ len > 0 /\ len < Size
     ELSE Space > 0 /\ nvars < MaxVars - 1
  /\ DOMAIN vars = 0 .. MaxVars - 1 /\ DOMAIN buf = 0 .. Size - 1

\* A variable is handed over whole or not at all: every pointer is to one that was
\* added, with the value it was given, in the order of the calls
\* (mongoose.c:3156-3173, 3262-3274).
VariablesAreWhole ==
  pc = "done" =>
    /\ nvars = Len(kept) + 1 /\ vars[nvars - 1] = -1
    /\ \A i \in 1 .. Len(kept) : IsButCapitals(StringAt(vars[i - 1]), kept[i])

\* The strings stand in one block, each right behind the one before, and a second end
\* after the last, as Windows wants it (mongoose.c:3126-3130).
BlockIsContiguous ==
  pc = "done" =>
    /\ \A i \in 1 .. Len(kept) :
         vars[i - 1] = IF i = 1 THEN 0 ELSE vars[i - 2] + Len(kept[i - 1]) + 1
    /\ kept # <<>> =>
         vars[Len(kept) - 1] + Len(kept[Len(kept)]) + 1 = len - 1 /\ buf[len - 2] = End
    /\ buf[len - 1] = End

=============================================================================

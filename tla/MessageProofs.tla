---------------------------- MODULE MessageProofs ----------------------------
(* What holds of Message for all addresses, headers, attachments and        *)
(* defaults, and for any number of calls and attempts.                     *)
EXTENDS Message, TLAPS, FiniteSetTheorems, SequenceTheorems

-----------------------------------------------------------------------------
(* Induction over the steps of a loop: if it fell short of step n, i |-> i+1 *)
(* would map the steps it reaches one to one into all of them but the first. *)
LEMMA EveryStep ==
  ASSUME NEW n \in Nat, NEW S, 0 \in S, \A i \in 0 .. n - 1 : i \in S => i + 1 \in S
  PROVE  n \in S
<1> SUFFICES ASSUME n \notin S PROVE FALSE
  OBVIOUS
<1> DEFINE T == (0 .. n) \cap S
           f == [i \in T |-> i + 1]
<1>1. IsFiniteSet(T) /\ 0 \in T
  <2>1. IsFiniteSet(0 .. n)
    BY FS_Interval
  <2> QED BY <2>1, FS_Subset
<1>2. f \in Injection(T, T \ {0})
  BY DEF Injection, IsInjective
<1> HIDE DEF T, f
<1>3. /\ IsFiniteSet(T \ {0}) /\ Cardinality(T \ {0}) = Cardinality(T) - 1
      /\ Cardinality(T) \in Nat
  BY <1>1, FS_RemoveElement, FS_CardinalityType
<1>4. Cardinality(T) <= Cardinality(T \ {0})
  BY <1>1, <1>2, <1>3, FS_Injection
<1> QED BY <1>3, <1>4

-----------------------------------------------------------------------------
(* to_many, the loop. *)

Loop(f, e, list) ==
  f = [i \in 0 .. Len(list) |-> IF i = 0 THEN e ELSE WithRecipient(f[i - 1], "to", list[i])]

LEMMA LoopExists ==
  ASSUME NEW e, NEW list \in Seq(Inputs)
  PROVE  \E f : Loop(f, e, list)
<1> DEFINE n == Len(list)
           Upto(f, k) == f = [i \in 0 .. k |-> IF i = 0 THEN e ELSE WithRecipient(f[i - 1], "to", list[i])]
           S == {k \in 0 .. n : \E f : Upto(f, k)}
<1>1. 0 \in S
  <2> DEFINE f == [i \in 0 .. 0 |-> e]
  <2>1. Upto(f, 0)
    OBVIOUS
  <2> HIDE DEF Upto
  <2> QED BY <2>1
<1>2. ASSUME NEW k \in 0 .. n - 1, k \in S PROVE k + 1 \in S
  <2>1. PICK f : Upto(f, k)
    BY <1>2
  <2> DEFINE g == [i \in 0 .. k + 1 |-> IF i = 0 THEN e ELSE WithRecipient(f[i - 1], "to", list[i])]
  <2> HIDE DEF Upto
  <2>2. \A i \in 0 .. k : g[i] = f[i]
    BY <2>1 DEF Upto
  <2>3. Upto(g, k + 1)
    <3>1. \A i \in 0 .. k + 1 : i # 0 => g[i - 1] = f[i - 1]
      <4>1. \A i \in 0 .. k + 1 : i # 0 => i - 1 \in 0 .. k
        BY <1>2
      <4> HIDE DEF g
      <4> QED BY <2>2, <4>1
    <3>2. g = [i \in 0 .. k + 1 |-> IF i = 0 THEN e ELSE WithRecipient(g[i - 1], "to", list[i])]
      <4> DEFINE h == [i \in 0 .. k + 1 |-> IF i = 0 THEN e ELSE WithRecipient(g[i - 1], "to", list[i])]
      <4>1. \A i \in 0 .. k + 1 : g[i] = h[i]
        BY <3>1
      <4> QED BY <4>1
    <3> QED BY <3>2 DEF Upto
  <2> QED BY <2>3
<1>3. n \in Nat
  OBVIOUS
<1>4. n \in S
  <2> HIDE DEF S, n
  <2> QED BY <1>1, <1>2, <1>3, EveryStep
<1> QED BY <1>4 DEF Loop

-----------------------------------------------------------------------------
(* What the builder keeps. *)

Fields    == DOMAIN NewEmail
Addresses == {Address(s) : s \in {r \in Inputs : Parses(r)}}

(* Every setter leaves an email of its type, with no address in it that did *)
(* not parse.                                                              *)
Typed(e) ==
  /\ e = [f \in Fields |-> e[f]]
  /\ e.from \in Addresses \cup {None} /\ e.reply_to \in Addresses \cup {None}
  /\ e.to \in Seq(Addresses) /\ e.cc \in Seq(Addresses) /\ e.bcc \in Seq(Addresses)
  /\ e.priority \in {None} \cup 1 .. 5
  /\ e.invalid_addresses \subseteq Inputs /\ e.invalid_headers \subseteq Headers

AskedType(a) ==
  a \in [from : Inputs \cup {None}, reply_to : Inputs \cup {None},
         to : Seq(Inputs), cc : Seq(Inputs), bcc : Seq(Inputs), headers : Seq(Headers)]

Sender(s) == IF s = None THEN None ELSE Address(s)

(* As long as no address was recorded as invalid, the email is from and to  *)
(* just those the caller named.                                            *)
Kept(e, a) ==
  e.invalid_addresses = {} =>
    /\ e.from = Sender(a.from) /\ e.reply_to = Sender(a.reply_to)
    /\ \A f \in {"to", "cc", "bcc"} : e[f] = Given(a[f]) /\ \A i \in DOMAIN a[f] : Parses(a[f][i])

LEMMA FieldsAre ==
  Fields = {"from", "reply_to", "to", "cc", "bcc", "subject", "text", "html", "attachments",
            "headers", "message_id", "references", "in_reply_to", "priority",
            "invalid_addresses", "invalid_headers"}
BY DEF Fields, NewEmail

LEMMA GivenAppend ==
  ASSUME NEW list \in Seq(Inputs), NEW s \in Inputs
  PROVE  Given(Append(list, s)) = Append(Given(list), Address(s))
<1> DEFINE A == {Address(r) : r \in Inputs}
<1>1. Given(list) \in Seq(A) /\ Len(Given(list)) = Len(list)
  BY DEF Given
<1>2. \A i \in 1 .. Len(list) : Given(list)[i] = Address(list[i])
  BY DEF Given
<1>3. /\ Append(list, s) \in Seq(Inputs) /\ Len(Append(list, s)) = Len(list) + 1
      /\ \A i \in 1 .. Len(list) : Append(list, s)[i] = list[i]
      /\ Append(list, s)[Len(list) + 1] = s
  OBVIOUS
<1>4. Given(Append(list, s)) \in Seq(A) /\ Len(Given(Append(list, s))) = Len(list) + 1
  BY <1>3 DEF Given
<1>5. \A i \in 1 .. Len(list) + 1 : Given(Append(list, s))[i] = Address(Append(list, s)[i])
  BY <1>3 DEF Given
<1>6. /\ Append(Given(list), Address(s)) \in Seq(A)
      /\ Len(Append(Given(list), Address(s))) = Len(list) + 1
      /\ \A i \in 1 .. Len(list) : Append(Given(list), Address(s))[i] = Given(list)[i]
      /\ Append(Given(list), Address(s))[Len(list) + 1] = Address(s)
  BY <1>1
<1> HIDE DEF A
<1>7. \A i \in 1 .. Len(list) + 1 : Given(Append(list, s))[i] = Append(Given(list), Address(s))[i]
  BY <1>2, <1>3, <1>5, <1>6
<1> QED BY <1>4, <1>6, <1>7, SeqEqual

LEMMA RecipientKept ==
  ASSUME NEW e, NEW a, Typed(e), AskedType(a), Kept(e, a),
         NEW field \in {"to", "cc", "bcc"}, NEW s \in Inputs
  PROVE  /\ Typed(WithRecipient(e, field, s))
         /\ AskedType([a EXCEPT ![field] = Append(@, s)])
         /\ Kept(WithRecipient(e, field, s), [a EXCEPT ![field] = Append(@, s)])
<1> DEFINE x == WithRecipient(e, field, s)
           b == [a EXCEPT ![field] = Append(a[field], s)]
<1>1. AskedType(b)
  <2>1. a[field] \in Seq(Inputs)
    BY DEF AskedType
  <2>2. Append(a[field], s) \in Seq(Inputs)
    BY <2>1
  <2>3. \A v \in Seq(Inputs) : [a EXCEPT ![field] = v] \in
          [from : Inputs \cup {None}, reply_to : Inputs \cup {None},
           to : Seq(Inputs), cc : Seq(Inputs), bcc : Seq(Inputs), headers : Seq(Headers)]
    BY DEF AskedType
  <2> QED BY <2>2, <2>3 DEF AskedType
<1>2. CASE ~Parses(s)
  <2>1. /\ \A f \in Fields \ {"invalid_addresses"} : x[f] = e[f]
        /\ x.invalid_addresses = e.invalid_addresses \cup {s} /\ x = [f \in Fields |-> x[f]]
    BY <1>2, FieldsAre DEF WithRecipient, RecordInvalid, Typed
  <2> HIDE DEF x
  <2>2. Typed(x)
    BY <2>1, FieldsAre DEF Typed
  <2>3. Kept(x, b)
    BY <2>1 DEF Kept
  <2> QED BY <1>1, <2>2, <2>3 DEF x
<1>3. CASE Parses(s)
  <2>1. /\ \A f \in Fields \ {field} : x[f] = e[f]
        /\ x[field] = Append(e[field], Address(s)) /\ x = [f \in Fields |-> x[f]]
    BY <1>3, FieldsAre DEF WithRecipient, Typed
  <2>2. Address(s) \in Addresses
    BY <1>3 DEF Addresses
  <2> HIDE DEF x
  <2>3. Typed(x)
    <3>1. e[field] \in Seq(Addresses)
      BY DEF Typed
    <3>2. x[field] \in Seq(Addresses)
      BY <2>1, <2>2, <3>1
    <3>3. \A f \in {"to", "cc", "bcc"} : x[f] \in Seq(Addresses)
      BY <2>1, <3>2, FieldsAre DEF Typed
    <3>4. \A f \in Fields \ {"to", "cc", "bcc"} : x[f] = e[f]
      BY <2>1, FieldsAre
    <3> QED BY <2>1, <3>3, <3>4, FieldsAre DEF Typed
  <2>4. Kept(x, b)
    <3> SUFFICES ASSUME x.invalid_addresses = {}
                 PROVE  /\ x.from = Sender(b.from) /\ x.reply_to = Sender(b.reply_to)
                        /\ \A f \in {"to", "cc", "bcc"} :
                             x[f] = Given(b[f]) /\ \A i \in DOMAIN b[f] : Parses(b[f][i])
      BY DEF Kept
    <3>1. /\ e.invalid_addresses = {} /\ \A f \in {"from", "reply_to"} : x[f] = e[f] /\ b[f] = a[f]
          /\ \A f \in {"to", "cc", "bcc"} \ {field} : x[f] = e[f] /\ b[f] = a[f]
          /\ b[field] = Append(a[field], s) /\ a[field] \in Seq(Inputs)
      BY <2>1, FieldsAre DEF AskedType
    <3>2. x[field] = Given(b[field])
      BY <2>1, <3>1, GivenAppend DEF Kept
    <3>3. \A i \in DOMAIN b[field] : Parses(b[field][i])
      BY <1>3, <3>1 DEF Kept
    <3> HIDE DEF b
    <3> QED BY <3>1, <3>2, <3>3 DEF Kept
  <2> QED BY <1>1, <2>3, <2>4 DEF x
<1> QED BY <1>2, <1>3

LEMMA AddressKept ==
  ASSUME NEW e, NEW a, Typed(e), AskedType(a), Kept(e, a),
         NEW field \in {"from", "reply_to"}, NEW s \in Inputs
  PROVE  /\ Typed(WithAddress(e, field, s))
         /\ AskedType([a EXCEPT ![field] = s])
         /\ Kept(WithAddress(e, field, s), [a EXCEPT ![field] = s])
<1> DEFINE x == WithAddress(e, field, s)
           b == [a EXCEPT ![field] = s]
<1>1. AskedType(b)
  BY DEF AskedType
<1>2. CASE ~Parses(s)
  <2>1. /\ \A f \in Fields \ {"invalid_addresses"} : x[f] = e[f]
        /\ x.invalid_addresses = e.invalid_addresses \cup {s} /\ x = [f \in Fields |-> x[f]]
    BY <1>2, FieldsAre DEF WithAddress, RecordInvalid, Typed
  <2> HIDE DEF x
  <2>2. Typed(x)
    BY <2>1, FieldsAre DEF Typed
  <2>3. Kept(x, b)
    BY <2>1 DEF Kept
  <2> QED BY <1>1, <2>2, <2>3 DEF x
<1>3. CASE Parses(s)
  <2>1. /\ \A f \in Fields \ {field} : x[f] = e[f]
        /\ x[field] = Address(s) /\ x = [f \in Fields |-> x[f]]
    BY <1>3, FieldsAre DEF WithAddress, Typed
  <2>2. Address(s) \in Addresses
    BY <1>3 DEF Addresses
  <2> HIDE DEF x
  <2>3. Typed(x)
    BY <2>1, <2>2, FieldsAre DEF Typed
  <2>4. Kept(x, b)
    <3>1. s # None
      BY MessageConfig
    <3>2. b[field] = s /\ \A f \in DOMAIN a \ {field} : b[f] = a[f]
      BY DEF AskedType
    <3>3. a.from \in Inputs \cup {None} /\ DOMAIN a = {"from", "reply_to", "to", "cc", "bcc", "headers"}
      BY DEF AskedType
    <3> HIDE DEF b
    <3>4. \A f \in {"to", "cc", "bcc"} : x[f] = e[f] /\ b[f] = a[f]
      BY <2>1, <3>2, <3>3, FieldsAre
    <3>5. x.invalid_addresses = e.invalid_addresses
      BY <2>1, FieldsAre
    <3>6. Kept(e, a) /\ x.invalid_addresses = {} =>
            x.from = Sender(b.from) /\ x.reply_to = Sender(b.reply_to)
      BY <2>1, <3>1, <3>2, <3>3, <3>5, FieldsAre DEF Kept, Sender
    <3> QED BY <3>4, <3>5, <3>6 DEF Kept
  <2> QED BY <1>1, <2>3, <2>4 DEF x
<1> QED BY <1>2, <1>3

(* The setters that have nothing to do with addresses.                      *)
LEMMA OthersKept ==
  ASSUME NEW e, NEW a, Typed(e), AskedType(a), Kept(e, a), NEW x, x = [f \in Fields |-> x[f]],
         \A f \in {"from", "reply_to", "to", "cc", "bcc", "invalid_addresses"} : x[f] = e[f],
         x.priority \in {None} \cup 1 .. 5, x.invalid_headers \subseteq Headers
  PROVE  /\ Typed(x) /\ Kept(x, a)
         /\ \A list \in Seq(Headers) : /\ AskedType([a EXCEPT !.headers = list])
                                      /\ Kept(x, [a EXCEPT !.headers = list])
<1>1. Typed(x)
  BY DEF Typed
<1>2. Kept(x, a)
  BY DEF Kept
<1>3. ASSUME NEW list PROVE Kept(x, [a EXCEPT !.headers = list])
  <2> DEFINE b == [a EXCEPT !.headers = list]
  <2>1. \A f \in {"from", "reply_to", "to", "cc", "bcc"} : b[f] = a[f]
    BY DEF AskedType
  <2> HIDE DEF b
  <2>2. Kept(x, b)
    BY <1>2, <2>1 DEF Kept
  <2> QED BY <2>2 DEF b
<1>4. \A list \in Seq(Headers) : AskedType([a EXCEPT !.headers = list])
  BY DEF AskedType
<1> QED BY <1>1, <1>2, <1>3, <1>4

LEMMA ManyKept ==
  ASSUME NEW e, NEW a, Typed(e), AskedType(a), Kept(e, a), NEW list \in Seq(Inputs)
  PROVE  /\ Typed(WithMany(e, list))
         /\ AskedType([a EXCEPT !.to = @ \o list])
         /\ Kept(WithMany(e, list), [a EXCEPT !.to = @ \o list])
<1> DEFINE after == CHOOSE f : Loop(f, e, list)
           b(i)  == [a EXCEPT !.to = a.to \o SubSeq(list, 1, i)]
           n     == Len(list)
           S     == {i \in 0 .. n : Typed(after[i]) /\ AskedType(b(i)) /\ Kept(after[i], b(i))}
<1>1. Loop(after, e, list)
  BY LoopExists
<1>2. WithMany(e, list) = after[n]
  BY DEF WithMany, Loop
<1> HIDE DEF after
<1>3. n \in Nat /\ a.to \in Seq(Inputs) /\ DOMAIN a = {"from", "reply_to", "to", "cc", "bcc", "headers"}
  BY DEF AskedType
<1>4. b(0) = a /\ b(n) = [a EXCEPT !.to = @ \o list]
  <2>1. SubSeq(list, 1, 0) = <<>> /\ SubSeq(list, 1, n) = list
    OBVIOUS
  <2>2. a.to \o <<>> = a.to /\ [a EXCEPT !.to = a.to] = a
    BY <1>3 DEF AskedType
  <2> QED BY <2>1, <2>2
<1>5. 0 \in S
  <2>1. after[0] = e
    BY <1>1, <1>3 DEF Loop
  <2>2. Typed(after[0]) /\ AskedType(b(0)) /\ Kept(after[0], b(0))
    BY <1>4, <2>1
  <2> QED BY <1>3, <2>2
<1>6. ASSUME NEW i \in 0 .. n - 1, i \in S PROVE i + 1 \in S
  <2>1. after[i + 1] = WithRecipient(after[i], "to", list[i + 1]) /\ list[i + 1] \in Inputs
    BY <1>1, <1>3 DEF Loop
  <2>2. b(i + 1) = [b(i) EXCEPT !["to"] = Append(@, list[i + 1])]
    <3>1. a.to \o SubSeq(list, 1, i + 1) = Append(a.to \o SubSeq(list, 1, i), list[i + 1])
      BY <1>3
    <3> QED BY <1>3, <3>1 DEF AskedType
  <2>3. Typed(after[i]) /\ AskedType(b(i)) /\ Kept(after[i], b(i))
    BY <1>6
  <2> HIDE DEF b
  <2>4. /\ Typed(WithRecipient(after[i], "to", list[i + 1]))
        /\ AskedType([b(i) EXCEPT !["to"] = Append(@, list[i + 1])])
        /\ Kept(WithRecipient(after[i], "to", list[i + 1]), [b(i) EXCEPT !["to"] = Append(@, list[i + 1])])
    BY <2>1, <2>3, RecipientKept
  <2> QED BY <1>3, <2>1, <2>2, <2>4
<1>7. n \in S
  <2> HIDE DEF S, n
  <2> QED BY <1>3, <1>5, <1>6, EveryStep
<1> QED BY <1>2, <1>4, <1>7

-----------------------------------------------------------------------------
(* The invariant. *)

(* The email that each attempt hands over, before the defaults.             *)
Identified == IF path = "direct" \/ email.message_id # None THEN email
              ELSE [email EXCEPT !.message_id = Minted]

Handed == [t \in Transports |-> Wire(t, ApplyDefaults(Identified))]

(* Every attempt works on that email, whichever way it took.                *)
SendInv ==
  /\ path \in {"building", "checked", "direct", "memory", "redis", "refused"}
  /\ path \in {"building", "checked", "refused"} => wires = <<>>
  /\ path = "direct" => body = ApplyDefaults(email)
  /\ path = "memory" => body = Stamped(email)
  /\ path = "redis" => body = ToJson(Stamped(email))
  /\ wires \in Seq({Handed}) /\ Len(wires) <= MaxAttempts
  /\ calls \in 0 .. MaxCalls

EmailInv == Typed(email) /\ AskedType(asked) /\ Kept(email, asked)

Inv == EmailInv /\ SendInv

LEMMA NewEmailKept ==
  /\ Typed(NewEmail) /\ AskedType(NothingAsked) /\ Kept(NewEmail, NothingAsked)
<1>1. Given(<<>>) = <<>>
  BY DEF Given
<1>2. Typed(NewEmail)
  <2>1. NewEmail = [f \in Fields |-> NewEmail[f]]
    BY DEF Fields, NewEmail
  <2>2. /\ NewEmail.from = None /\ NewEmail.reply_to = None /\ NewEmail.priority = None
        /\ NewEmail.to = <<>> /\ NewEmail.cc = <<>> /\ NewEmail.bcc = <<>>
        /\ NewEmail.invalid_addresses = {} /\ NewEmail.invalid_headers = {}
    BY DEF NewEmail
  <2>3. <<>> \in Seq(Addresses)
    OBVIOUS
  <2> HIDE DEF NewEmail
  <2> QED BY <2>1, <2>2, <2>3 DEF Typed
<1>3. AskedType(NothingAsked)
  BY DEF AskedType, NothingAsked
<1>4. Kept(NewEmail, NothingAsked)
  BY <1>1 DEF Kept, NewEmail, NothingAsked, Sender
<1> QED BY <1>2, <1>3, <1>4

LEMMA BegunKept ==
  ASSUME NEW s \in Inputs, NEW subject, NEW text, NEW html
  PROVE  /\ Typed(Begun(s, subject, text, html))
         /\ AskedType([NothingAsked EXCEPT !.to = <<s>>])
         /\ Kept(Begun(s, subject, text, html), [NothingAsked EXCEPT !.to = <<s>>])
<1> DEFINE e == WithRecipient(NewEmail, "to", s)
           a == [NothingAsked EXCEPT !.to = <<s>>]
           x == [e EXCEPT !.subject = subject, !.text = text, !.html = html]
<1>1. a = [NothingAsked EXCEPT !["to"] = Append(@, s)]
  BY DEF NothingAsked
<1>2. Typed(e) /\ AskedType(a) /\ Kept(e, a)
  BY <1>1, NewEmailKept, RecipientKept
<1> HIDE DEF e, a
<1>3. /\ x = [f \in Fields |-> x[f]]
      /\ \A f \in Fields \ {"subject", "text", "html"} : x[f] = e[f]
  BY <1>2, FieldsAre DEF Typed
<1>4. x.priority \in {None} \cup 1 .. 5 /\ x.invalid_headers \subseteq Headers
  BY <1>2, <1>3, FieldsAre DEF Typed
<1>5. x = Begun(s, subject, text, html)
  BY DEF Begun, e
<1> HIDE DEF x
<1>6. Typed(x) /\ Kept(x, a)
  BY <1>2, <1>3, <1>4, FieldsAre, OthersKept
<1> QED BY <1>2, <1>5, <1>6 DEF a

LEMMA InvInit == Init => Inv
<1> SUFFICES ASSUME Init PROVE Inv
  OBVIOUS
<1>1. EmailInv
  <2>1. CASE email = NewEmail
    BY <2>1, NewEmailKept DEF Init, EmailInv
  <2>2. CASE \E s \in Subjects : email = [NewEmail EXCEPT !.subject = s, !.text = TRUE]
    <3>1. /\ email = [f \in Fields |-> email[f]]
          /\ \A f \in Fields \ {"subject", "text"} : email[f] = NewEmail[f]
      BY <2>2, FieldsAre DEF NewEmail
    <3>2. email.priority \in {None} \cup 1 .. 5 /\ email.invalid_headers \subseteq Headers
      BY <3>1, NewEmailKept, FieldsAre DEF Typed
    <3>3. Typed(email) /\ Kept(email, NothingAsked)
      BY <3>1, <3>2, NewEmailKept, FieldsAre, OthersKept
    <3> QED BY <3>3, NewEmailKept DEF Init, EmailInv
  <2> QED BY <2>1, <2>2 DEF Init
<1>2. SendInv
  <2>1. wires = <<>> /\ calls = 0 /\ path \in {"building", "checked"}
    BY DEF Init
  <2>2. MaxCalls \in Nat /\ MaxAttempts \in Nat
    BY MessageConfig
  <2> QED BY <2>1, <2>2 DEF SendInv
<1> QED BY <1>1, <1>2 DEF Inv

-----------------------------------------------------------------------------
(* Submitting, and the attempts. *)

LEMMA SharedIsDefaulted ==
  ASSUME NEW e, e = [f \in Fields |-> e[f]]
  PROVE  SendShared(e) = ApplyDefaults(e)
<1>1. ASSUME ~NeedsDefaults(e) PROVE ApplyDefaults(e) = e
  BY <1>1, FieldsAre DEF NeedsDefaults, ApplyDefaults
<1> QED BY <1>1 DEF SendShared

LEMMA JsonKeeps ==
  ASSUME NEW e, e = [f \in Fields |-> e[f]]
  PROVE  FromJson(ToJson(e)) = e
BY DEF FromJson, ToJson, Fields

LEMMA StampedKeeps ==
  ASSUME NEW e, e = [f \in Fields |-> e[f]]
  PROVE  Stamped(e) = [f \in Fields |-> Stamped(e)[f]]
BY FieldsAre DEF Stamped

(* What a step does to the message on its way.                              *)
Builds ==
  /\ path \in {"building", "checked"} /\ path' \in {"building", "checked", "refused"}
  /\ calls' \in 0 .. MaxCalls /\ UNCHANGED wires

Submits ==
  /\ path = "building" /\ UNCHANGED <<calls, wires>>
  /\ \/ path' = "direct" /\ body' = ApplyDefaults(email')
     \/ path' = "memory" /\ body' = Stamped(email')
     \/ path' = "redis" /\ body' = ToJson(Stamped(email'))

LEMMA StepEffect ==
  ASSUME SendInv, [Next]_vars
  PROVE  Builds \/ Submits \/ Attempt \/ UNCHANGED vars
<1> USE DEF Builds, Call, Rest
<1>1. calls \in 0 .. MaxCalls /\ MaxCalls \in Nat
  BY MessageConfig DEF SendInv
<1>2. CASE Build
  <2>1. ASSUME NEW field, NEW s, SetAddress(field, s) PROVE Builds
    BY <1>1, <2>1 DEF SetAddress
  <2>2. ASSUME NEW field, NEW s, AddRecipient(field, s) PROVE Builds
    BY <1>1, <2>2 DEF AddRecipient
  <2>3. ASSUME NEW list, ToMany(list) PROVE Builds
    BY <1>1, <2>3 DEF ToMany
  <2>4. ASSUME NEW h, AddHeader(h) \/ PushHeader(h) PROVE Builds
    BY <1>1, <2>4 DEF AddHeader, PushHeader
  <2>5. ASSUME NEW field, NEW s, BuilderAddress(field, s) PROVE Builds
    BY <1>1, <2>5 DEF BuilderAddress
  <2>6. ASSUME BuilderDone PROVE Builds
    BY <1>1, <2>6 DEF BuilderDone
  <2>7. ASSUME NEW field, NEW v, SetField(field, v) \/ SetContent(field, v) PROVE Builds
    BY <1>1, <2>7 DEF SetField, SetContent
  <2>8. ASSUME NEW id, AddReference(id) PROVE Builds
    BY <1>1, <2>8 DEF AddReference
  <2>9. ASSUME NEW a, Attach(a) PROVE Builds
    BY <1>1, <2>9 DEF Attach
  <2> QED BY <1>2, <2>1, <2>2, <2>3, <2>4, <2>5, <2>6, <2>7, <2>8, <2>9 DEF Build, SetPriority
<1>3. ASSUME NEW s, NEW subject, Canned(s, subject) PROVE Builds
  BY <1>1, <1>3 DEF Canned, Fresh
<1>4. ASSUME NEW s, NEW subject, NEW html, SendSimple(s, subject, html) PROVE Submits
  BY <1>4 DEF SendSimple, Fresh, Submits
<1>5. ASSUME NEW s, NEW subject, NEW text, NEW html, SendTemplate(s, subject, text, html)
      PROVE  Builds \/ Submits
  BY <1>1, <1>5 DEF SendTemplate, Fresh, Submits
<1>6. ASSUME Send PROVE Submits
  BY <1>6 DEF Send, Submits
<1>7. ASSUME NEW queue \in {"memory", "redis"}, Enqueue(queue) PROVE Submits
  BY <1>7 DEF Enqueue, Submits
<1> QED BY <1>2, <1>3, <1>4, <1>5, <1>6, <1>7 DEF Next

LEMMA AttemptHands ==
  ASSUME Inv, Attempt
  PROVE  wires' = Append(wires, Handed) /\ UNCHANGED <<Handed, body>>
<1>1. email = [f \in Fields |-> email[f]]
  BY DEF Inv, EmailInv, Typed
<1>2. /\ Stamped(email) = [f \in Fields |-> Stamped(email)[f]]
      /\ FromJson(ToJson(Stamped(email))) = Stamped(email)
  BY <1>1, StampedKeeps, JsonKeeps
<1>3. path # "direct" => Identified = Stamped(email)
  BY DEF Identified, Stamped
<1>4. CASE path = "direct"
  <2>1. wires' = Append(wires, [t \in Transports |-> Wire(t, body)]) /\ UNCHANGED <<email, path, body>>
    BY <1>4 DEF Attempt
  <2>2. body = ApplyDefaults(Identified)
    BY <1>4 DEF Inv, SendInv, Identified
  <2> QED BY <2>1, <2>2 DEF Handed, Identified
<1>5. CASE path = "memory"
  <2>1. /\ wires' = Append(wires, [t \in Transports |-> Wire(t, SendShared(body))])
        /\ UNCHANGED <<email, path, body>>
    BY <1>5 DEF Attempt
  <2>2. SendShared(body) = ApplyDefaults(Identified)
    BY <1>2, <1>3, <1>5, SharedIsDefaulted DEF Inv, SendInv
  <2> QED BY <2>1, <2>2 DEF Handed, Identified
<1>6. CASE path = "redis"
  <2>1. /\ wires' = Append(wires, [t \in Transports |-> Wire(t, SendShared(FromJson(body)))])
        /\ UNCHANGED <<email, path>> /\ body' = ToJson(FromJson(body))
    BY <1>6 DEF Attempt
  <2>2. FromJson(body) = Stamped(email) /\ body = ToJson(Stamped(email))
    BY <1>2, <1>6 DEF Inv, SendInv
  <2>3. SendShared(FromJson(body)) = ApplyDefaults(Identified)
    BY <1>2, <1>3, <1>6, <2>2, SharedIsDefaulted
  <2> QED BY <2>1, <2>2, <2>3 DEF Handed, Identified
<1> QED BY <1>4, <1>5, <1>6 DEF Attempt

LEMMA SendStep ==
  ASSUME Inv, [Next]_vars
  PROVE  SendInv'
<1>1. Builds \/ Submits \/ Attempt \/ UNCHANGED vars
  BY StepEffect DEF Inv
<1>2. CASE Builds
  BY <1>2 DEF Inv, SendInv, Builds
<1>3. CASE Submits
  BY <1>3 DEF Inv, SendInv, Submits
<1>4. CASE Attempt
  <2>1. wires' = Append(wires, Handed) /\ UNCHANGED <<Handed, body, email, calls, path>>
    BY <1>4, AttemptHands DEF Attempt
  <2>2. Len(wires) < MaxAttempts /\ MaxAttempts \in Nat /\ wires \in Seq({Handed})
    BY <1>4, MessageConfig DEF Attempt, Inv, SendInv
  <2>3. wires' \in Seq({Handed'}) /\ Len(wires') = Len(wires) + 1 /\ Len(wires) \in Nat
    BY <2>1, <2>2
  <2>4. path \in {"direct", "memory", "redis"}
    BY <1>4 DEF Attempt
  <2> QED BY <2>1, <2>2, <2>3, <2>4 DEF Inv, SendInv
<1>5. CASE UNCHANGED vars
  <2>1. UNCHANGED <<Handed, path, wires, body, email, calls>>
    BY <1>5 DEF vars, Handed, Identified
  <2> QED BY <2>1 DEF Inv, SendInv
<1> QED BY <1>1, <1>2, <1>3, <1>4, <1>5

-----------------------------------------------------------------------------
(* The builder's steps. *)

(* A setter that has nothing to do with addresses, and records at most a    *)
(* header in asked.                                                        *)
LEMMA SetterKeeps ==
  ASSUME EmailInv, NEW field \in Fields,
         field \notin {"from", "reply_to", "to", "cc", "bcc", "invalid_addresses"},
         NEW v, email' = [email EXCEPT ![field] = v],
         field = "priority" => v \in {None} \cup 1 .. 5,
         field = "invalid_headers" => v \subseteq Headers,
         \/ asked' = asked
         \/ \E list \in Seq(Headers) : asked' = [asked EXCEPT !.headers = list]
  PROVE  EmailInv'
<1>1. Typed(email) /\ AskedType(asked) /\ Kept(email, asked)
  BY DEF EmailInv
<1>2. /\ email' = [f \in Fields |-> email'[f]] /\ email'[field] = v
      /\ \A f \in Fields \ {field} : email'[f] = email[f]
  BY <1>1 DEF Typed
<1>3. \A f \in {"from", "reply_to", "to", "cc", "bcc", "invalid_addresses"} : email'[f] = email[f]
  BY <1>2, FieldsAre
<1>4. email'.priority \in {None} \cup 1 .. 5 /\ email'.invalid_headers \subseteq Headers
  BY <1>1, <1>2, FieldsAre DEF Typed
<1>5. /\ Typed(email') /\ Kept(email', asked)
      /\ \A list \in Seq(Headers) : /\ AskedType([asked EXCEPT !.headers = list])
                                   /\ Kept(email', [asked EXCEPT !.headers = list])
  <2> DEFINE x == email'
  <2>1. /\ x = [f \in Fields |-> x[f]]
        /\ \A f \in {"from", "reply_to", "to", "cc", "bcc", "invalid_addresses"} : x[f] = email[f]
        /\ x.priority \in {None} \cup 1 .. 5 /\ x.invalid_headers \subseteq Headers
    BY <1>2, <1>3, <1>4
  <2> HIDE DEF x
  <2>2. /\ Typed(x) /\ Kept(x, asked)
        /\ \A list \in Seq(Headers) : /\ AskedType([asked EXCEPT !.headers = list])
                                     /\ Kept(x, [asked EXCEPT !.headers = list])
    BY <1>1, <2>1, OthersKept
  <2> QED BY <2>2 DEF x
<1>6. AskedType(asked') /\ Kept(email', asked')
  BY <1>1, <1>5
<1> QED BY <1>5, <1>6 DEF EmailInv

LEMMA EmailStep ==
  ASSUME EmailInv, [Next]_vars
  PROVE  EmailInv'
<1>1. Typed(email) /\ AskedType(asked) /\ Kept(email, asked)
  BY DEF EmailInv
<1>2. ASSUME UNCHANGED <<email, asked>> PROVE EmailInv'
  BY <1>1, <1>2 DEF EmailInv
<1>3. CASE Build
  <2>1. ASSUME NEW field \in {"from", "reply_to"}, NEW s \in Inputs, SetAddress(field, s)
        PROVE  EmailInv'
    BY <1>1, <2>1, AddressKept DEF SetAddress, EmailInv
  <2>2. ASSUME NEW field \in {"to", "cc", "bcc"}, NEW s \in Inputs, AddRecipient(field, s)
        PROVE  EmailInv'
    BY <1>1, <2>2, RecipientKept DEF AddRecipient, EmailInv
  <2>3. ASSUME NEW list \in Lists, ToMany(list) PROVE EmailInv'
    <3>1. list \in Seq(Inputs)
      BY MessageConfig
    <3> QED BY <1>1, <2>3, <3>1, ManyKept DEF ToMany, EmailInv
  <2>4. ASSUME NEW h \in Headers, AddHeader(h) \/ PushHeader(h) PROVE EmailInv'
    <3>1. \E list \in Seq(Headers) : asked' = [asked EXCEPT !.headers = list]
      <4>1. Append(asked.headers, h) \in Seq(Headers)
        BY <1>1 DEF AskedType
      <4> QED BY <2>4, <4>1 DEF AddHeader, PushHeader
    <3>2. \/ email' = [email EXCEPT !["headers"] = Append(email.headers, h)]
          \/ email' = [email EXCEPT !["invalid_headers"] = email.invalid_headers \cup {h}]
      BY <2>4 DEF AddHeader, PushHeader, WithHeader
    <3>3. email.invalid_headers \cup {h} \subseteq Headers
      BY <1>1 DEF Typed
    <3> QED BY <3>1, <3>2, <3>3, SetterKeeps, FieldsAre
  <2>5. ASSUME NEW field \in {"from", "to"}, NEW s \in Inputs, BuilderAddress(field, s)
        PROVE  EmailInv'
    <3>1. CASE ~Parses(s)
      BY <1>2, <2>5, <3>1 DEF BuilderAddress
    <3>2. CASE Parses(s) /\ field = "to"
      BY <1>1, <2>5, <3>2, RecipientKept DEF BuilderAddress, EmailInv
    <3>3. CASE Parses(s) /\ field = "from"
      BY <1>1, <2>5, <3>3, AddressKept DEF BuilderAddress, EmailInv
    <3> QED BY <3>1, <3>2, <3>3
  <2>6. ASSUME BuilderDone PROVE EmailInv'
    BY <1>2, <2>6 DEF BuilderDone
  <2>7. ASSUME NEW field \in {"message_id", "in_reply_to", "subject", "text", "html"}, NEW v,
               SetField(field, v) \/ SetContent(field, v)
        PROVE  EmailInv'
    BY <2>7, SetterKeeps, FieldsAre DEF SetField, SetContent
  <2>8. ASSUME NEW p \in Levels, SetPriority(p) PROVE EmailInv'
    <3>1. Clamped(p) \in 1 .. 5
      BY MessageConfig DEF Clamped
    <3> QED BY <2>8, <3>1, SetterKeeps, FieldsAre DEF SetPriority, SetField
  <2>9. ASSUME NEW id, AddReference(id) PROVE EmailInv'
    <3>1. email' = [email EXCEPT !["references"] = Append(email.references, id)] /\ asked' = asked
      BY <2>9 DEF AddReference
    <3> QED BY <3>1, SetterKeeps, FieldsAre
  <2>10. ASSUME NEW a, Attach(a) PROVE EmailInv'
    <3>1. email' = [email EXCEPT !["attachments"] = Append(email.attachments, a)] /\ asked' = asked
      BY <2>10 DEF Attach
    <3> QED BY <3>1, SetterKeeps, FieldsAre
  <2> QED BY <1>3, <2>1, <2>2, <2>3, <2>4, <2>5, <2>6, <2>7, <2>8, <2>9, <2>10 DEF Build
<1>4. ASSUME NEW s \in Inputs, NEW subject, Canned(s, subject) PROVE EmailInv'
  BY <1>4, BegunKept DEF Canned, EmailInv
<1>5. ASSUME NEW s \in Inputs, NEW subject, NEW html, SendSimple(s, subject, html) PROVE EmailInv'
  BY <1>5, BegunKept DEF SendSimple, EmailInv
<1>6. ASSUME NEW s \in Inputs, NEW subject, NEW text, NEW html, SendTemplate(s, subject, text, html)
      PROVE  EmailInv'
  BY <1>2, <1>6, BegunKept DEF SendTemplate, EmailInv
<1>7. ASSUME Send \/ Attempt \/ (\E queue \in {"memory", "redis"} : Enqueue(queue)) PROVE EmailInv'
  BY <1>2, <1>7 DEF Send, Attempt, Enqueue
<1>8. CASE UNCHANGED vars
  BY <1>2, <1>8 DEF vars
<1> QED BY <1>3, <1>4, <1>5, <1>6, <1>7, <1>8 DEF Next

THEOREM InvCorrect == Spec => []Inv
<1>1. Inv /\ [Next]_vars => Inv'
  BY EmailStep, SendStep DEF Inv
<1> QED BY <1>1, InvInit, PTL DEF Spec

-----------------------------------------------------------------------------
(* The properties of the run. *)

(* Whichever way it takes, and however often it is tried, each transport is *)
(* handed the email that Mailer::send would have handed it.                *)
THEOREM PathsCorrect == Spec => []PathsAgree
<1>1. ASSUME Inv PROVE PathsAgree
  <2>1. /\ \A i \in DOMAIN wires : wires[i] = Handed
        /\ Handed = [t \in Transports |-> Wire(t, ApplyDefaults(Identified))]
    BY <1>1 DEF Inv, SendInv, Handed
  <2> QED BY <2>1 DEF PathsAgree, Identified
<1> QED BY <1>1, InvCorrect, PTL

(* What a transport does hand over is for the email's own addresses, and    *)
(* the email was valid.                                                    *)
Addressed(w, e) ==
  /\ w.from = e.from /\ w.reply_to = e.reply_to
  /\ w.to = e.to /\ w.cc = e.cc /\ w.bcc = e.bcc

LEMMA LettreAddressed ==
  ASSUME NEW e, ToLettre(e) # None
  PROVE  Valid(e) /\ Addressed(ToLettre(e), e)
BY DEF ToLettre, Envelope, Addressed

LEMMA WireAddressed ==
  ASSUME NEW e, NEW t \in Transports, Wire(t, e) # None
  PROVE  Valid(e) /\ Addressed(Wire(t, e), e)
<1>1. CASE t = "smtp"
  BY <1>1, LettreAddressed DEF Wire
<1>2. CASE t = "ses"
  <2>1. Wire(t, e) = Ses(e)
    BY <1>2 DEF Wire
  <2>2. CASE NeedsRawMime(e)
    BY <2>1, <2>2, LettreAddressed DEF Ses
  <2>3. CASE ~NeedsRawMime(e)
    BY <2>1, <2>3 DEF Ses, Envelope, Addressed
  <2> QED BY <2>2, <2>3
<1>3. CASE t = "sendgrid"
  BY <1>3 DEF Wire, SendGrid, Envelope, Addressed
<1>4. CASE t = "mailgun"
  BY <1>4 DEF Wire, Mailgun, Envelope, Addressed
<1> QED BY <1>1, <1>2, <1>3, <1>4 DEF Transports

LEMMA DefaultsKeep ==
  ASSUME EmailInv
  PROVE  LET x == ApplyDefaults(Identified)
         IN  /\ \A f \in Fields \ {"from", "reply_to", "message_id"} : x[f] = email[f]
             /\ x.from = IF email.from = None THEN DefaultFrom ELSE email.from
             /\ x.reply_to = IF email.reply_to = None THEN DefaultReplyTo ELSE email.reply_to
<1>1. email = [f \in Fields |-> email[f]]
  BY DEF EmailInv, Typed
<1>2. /\ Identified = [f \in Fields |-> Identified[f]]
      /\ \A f \in Fields \ {"message_id"} : Identified[f] = email[f]
  BY <1>1, FieldsAre DEF Identified
<1> QED BY <1>2, FieldsAre DEF ApplyDefaults

LEMMA DeliveredIs ==
  ASSUME Inv, NEW w \in Delivered
  PROVE  LET x == ApplyDefaults(Identified)
         IN  \E t \in Transports : w = Wire(t, x) /\ Wire(t, x) # None
<1>1. PICK i \in DOMAIN wires, t \in Transports : w = wires[i][t] /\ w # None
  <2>1. PICK W \in {{wires[i][t] : t \in Transports} : i \in DOMAIN wires} : w \in W
    BY DEF Delivered
  <2>2. PICK i \in DOMAIN wires : W = {wires[i][t] : t \in Transports}
    BY <2>1
  <2>3. w # None
    BY DEF Delivered
  <2> QED BY <2>1, <2>2, <2>3
<1>2. wires[i] = Handed
  BY <1>1 DEF Inv, SendInv
<1> QED BY <1>1, <1>2 DEF Handed

LEMMA DeliveredFacts ==
  ASSUME Inv, NEW w \in Delivered
  PROVE  /\ email.invalid_addresses = {}
         /\ w.from = (IF email.from = None THEN DefaultFrom ELSE email.from) /\ w.from # None
         /\ w.reply_to = IF email.reply_to = None THEN DefaultReplyTo ELSE email.reply_to
         /\ w.to = email.to /\ w.cc = email.cc /\ w.bcc = email.bcc
         /\ w.to # <<>> \/ w.cc # <<>> \/ w.bcc # <<>>
<1> DEFINE x == ApplyDefaults(Identified)
<1>3. PICK t \in Transports : w = Wire(t, x) /\ Wire(t, x) # None
  BY DeliveredIs
<1>4. /\ \A f \in Fields \ {"from", "reply_to", "message_id"} : x[f] = email[f]
      /\ x.from = IF email.from = None THEN DefaultFrom ELSE email.from
      /\ x.reply_to = IF email.reply_to = None THEN DefaultReplyTo ELSE email.reply_to
  BY DefaultsKeep DEF Inv
<1> HIDE DEF x
<1>5. Valid(x) /\ Addressed(w, x)
  BY <1>3, WireAddressed
<1>6. /\ x.invalid_addresses = {} /\ x.from # None
      /\ x.to # <<>> \/ x.cc # <<>> \/ x.bcc # <<>>
  BY <1>5 DEF Valid
<1> QED BY <1>4, <1>5, <1>6, FieldsAre DEF Addressed

LEMMA RangeConcat ==
  ASSUME NEW S, NEW s \in Seq(S), NEW t \in Seq(S)
  PROVE  Range(s \o t) = Range(s) \cup Range(t)
<1>1. \A i \in 1 .. Len(s) : s[i] = (s \o t)[i] /\ i \in 1 .. Len(s \o t)
  OBVIOUS
<1>2. \A i \in 1 .. Len(t) : t[i] = (s \o t)[Len(s) + i] /\ Len(s) + i \in 1 .. Len(s \o t)
  OBVIOUS
<1>3. \A i \in 1 .. Len(s \o t) :
        IF i <= Len(s) THEN i \in 1 .. Len(s)
        ELSE i - Len(s) \in 1 .. Len(t) /\ (s \o t)[i] = t[i - Len(s)]
  OBVIOUS
<1>4. DOMAIN s = 1 .. Len(s) /\ DOMAIN t = 1 .. Len(t) /\ DOMAIN (s \o t) = 1 .. Len(s \o t)
  OBVIOUS
<1>5. ASSUME NEW x \in Range(s \o t) PROVE x \in Range(s) \cup Range(t)
  BY <1>1, <1>3, <1>4, <1>5 DEF Range
<1>6. ASSUME NEW x \in Range(s) PROVE x \in Range(s \o t)
  BY <1>1, <1>4, <1>6 DEF Range
<1>7. ASSUME NEW x \in Range(t) PROVE x \in Range(s \o t)
  BY <1>2, <1>4, <1>7 DEF Range
<1> QED BY <1>5, <1>6, <1>7

(* An email that leaves goes from and to just those the caller named, in    *)
(* order, the defaults standing in where it named nobody: one malformed     *)
(* address stops all of it.                                                *)
THEOREM NobodyDroppedCorrect == Spec => []NobodyDropped
<1>1. ASSUME Inv, NEW w \in Delivered
      PROVE  /\ w.from = IF asked.from = None THEN DefaultFrom ELSE Address(asked.from)
             /\ w.reply_to = IF asked.reply_to = None THEN DefaultReplyTo ELSE Address(asked.reply_to)
             /\ w.to = Given(asked.to) /\ w.cc = Given(asked.cc) /\ w.bcc = Given(asked.bcc)
             /\ \A s \in Range(asked.to \o asked.cc \o asked.bcc) : Parses(s)
  <2>1. email.invalid_addresses = {}
    BY <1>1, DeliveredFacts
  <2>2. /\ email.from = Sender(asked.from) /\ email.reply_to = Sender(asked.reply_to)
        /\ \A f \in {"to", "cc", "bcc"} :
             email[f] = Given(asked[f]) /\ \A i \in DOMAIN asked[f] : Parses(asked[f][i])
    BY <1>1, <2>1 DEF Inv, EmailInv, Kept
  <2>3. AskedType(asked)
    BY <1>1 DEF Inv, EmailInv
  <2>4. ASSUME NEW s \in Inputs PROVE Address(s) # None
    <3>1. Address(s) \in [email : {r.email : r \in Inputs}, name : {r.name : r \in Inputs} \cup {None}]
      BY DEF Address
    <3> QED BY <3>1, MessageConfig
  <2>5. ASSUME NEW a \in Inputs \cup {None}, NEW default
        PROVE  (IF Sender(a) = None THEN default ELSE Sender(a))
                 = IF a = None THEN default ELSE Address(a)
    BY <2>4 DEF Sender
  <2>6. asked.from \in Inputs \cup {None} /\ asked.reply_to \in Inputs \cup {None}
    BY <2>3 DEF AskedType
  <2>7. ASSUME NEW s \in Range(asked.to \o asked.cc \o asked.bcc) PROVE Parses(s)
    <3>1. asked.to \in Seq(Inputs) /\ asked.cc \in Seq(Inputs) /\ asked.bcc \in Seq(Inputs)
      BY <2>3 DEF AskedType
    <3>2. /\ Range(asked.to \o asked.cc) = Range(asked.to) \cup Range(asked.cc)
          /\ asked.to \o asked.cc \in Seq(Inputs)
      BY <3>1, RangeConcat
    <3>3. Range(asked.to \o asked.cc \o asked.bcc)
            = Range(asked.to) \cup Range(asked.cc) \cup Range(asked.bcc)
      <4> DEFINE first == asked.to \o asked.cc
      <4>1. first \in Seq(Inputs)
        BY <3>2
      <4> HIDE DEF first
      <4>2. Range(first \o asked.bcc) = Range(first) \cup Range(asked.bcc)
        BY <3>1, <4>1, RangeConcat
      <4> USE DEF first
      <4> QED BY <3>2, <4>2
    <3>4. \E f \in {"to", "cc", "bcc"} : \E i \in DOMAIN asked[f] : s = asked[f][i]
      BY <2>7, <3>3 DEF Range
    <3> QED BY <2>2, <3>4
  <2> QED BY <1>1, <2>2, <2>5, <2>6, <2>7, DeliveredFacts
<1>2. Inv => NobodyDropped
  BY <1>1 DEF NobodyDropped
<1> QED BY <1>2, InvCorrect, PTL

(* No address that does not parse gets into an email, its priority is one   *)
(* of the five levels, and what leaves has a sender and a recipient.        *)
THEOREM TypeCorrect == Spec => []TypeOK
<1>1. ASSUME Inv PROVE TypeOK
  <2>1. \A a \in Addresses : WellFormed(a.email)
    BY DEF Addresses, Address, Parses
  <2>2. Senders(email) \cup Recipients(email) \subseteq Addresses
    BY <1>1 DEF Inv, EmailInv, Typed, Senders, Recipients, Range
  <2>3. ASSUME NEW w \in Delivered PROVE w.from # None /\ w.to \o w.cc \o w.bcc # <<>>
    <3>1. w.to \in Seq(Addresses) /\ w.cc \in Seq(Addresses) /\ w.bcc \in Seq(Addresses)
      BY <1>1, <2>3, DeliveredFacts DEF Inv, EmailInv, Typed
    <3>2. w.to # <<>> \/ w.cc # <<>> \/ w.bcc # <<>>
      BY <1>1, <2>3, DeliveredFacts
    <3>3. Len(w.to \o w.cc \o w.bcc) = Len(w.to) + Len(w.cc) + Len(w.bcc)
      BY <3>1
    <3>4. Len(w.to) > 0 \/ Len(w.cc) > 0 \/ Len(w.bcc) > 0
      BY <3>1, <3>2
    <3> QED BY <1>1, <2>3, <3>1, <3>3, <3>4, DeliveredFacts
  <2> QED BY <1>1, <2>1, <2>2, <2>3 DEF TypeOK, Inv, SendInv, EmailInv, Typed
<1> QED BY <1>1, InvCorrect, PTL

-----------------------------------------------------------------------------
(* Lists. *)

(* Induction over lists, from the empty one by appending. *)
LEMMA EveryList ==
  ASSUME NEW A, NEW P, <<>> \in P,
         \A list \in Seq(A) : list \in P => \A x \in A : Append(list, x) \in P
  PROVE  \A list \in Seq(A) : list \in P
<1> TAKE list \in Seq(A)
<1> DEFINE S == {i \in 0 .. Len(list) : SubSeq(list, 1, i) \in P}
<1>1. Len(list) \in Nat /\ SubSeq(list, 1, 0) = <<>> /\ SubSeq(list, 1, Len(list)) = list
  <2>1. SubSeq(list, 1, Len(list)) = list
    BY SubSeqFull
  <2>2. SubSeq(list, 1, 0) = <<>>
    BY SubSeqEmpty
  <2>3. Len(list) \in Nat
    OBVIOUS
  <2> QED BY <2>1, <2>2, <2>3
<1>2. 0 \in S
  <2>1. SubSeq(list, 1, 0) \in P
    BY <1>1
  <2>2. 0 \in 0 .. Len(list)
    BY <1>1
  <2> QED BY <2>1, <2>2
<1>3. ASSUME NEW i \in 0 .. Len(list) - 1, i \in S PROVE i + 1 \in S
  <2>1. /\ SubSeq(list, 1, i) \in Seq(A) /\ list[i + 1] \in A
        /\ SubSeq(list, 1, i + 1) = Append(SubSeq(list, 1, i), list[i + 1])
    OBVIOUS
  <2>2. SubSeq(list, 1, i) \in P /\ i + 1 \in 0 .. Len(list)
    BY <1>3
  <2> QED BY <2>1, <2>2
<1>4. Len(list) \in S
  <2> HIDE DEF S
  <2> QED BY <1>1, <1>2, <1>3, EveryStep
<1> QED BY <1>1, <1>4

(* A loop that takes a value of X through n steps of g. *)
LEMMA LoopRuns ==
  ASSUME NEW X, NEW base \in X, NEW n \in Nat, NEW g \in [1 .. n -> [X -> X]]
  PROVE  \E f : f \in [0 .. n -> X] /\ f[0] = base /\ \A i \in 1 .. n : f[i] = g[i][f[i - 1]]
<1> DEFINE Runs(f, k) == f \in [0 .. k -> X] /\ f[0] = base /\ \A i \in 1 .. k : f[i] = g[i][f[i - 1]]
           S == {k \in 0 .. n : \E f : Runs(f, k)}
<1>1. 0 \in S
  <2>1. Runs([i \in 0 .. 0 |-> base], 0)
    OBVIOUS
  <2> HIDE DEF Runs
  <2> QED BY <2>1
<1>2. ASSUME NEW k \in 0 .. n - 1, k \in S PROVE k + 1 \in S
  <2>1. PICK f : Runs(f, k)
    BY <1>2
  <2>2. k \in Nat /\ k + 1 \in 1 .. n /\ k + 1 \in 0 .. n /\ f[k] \in X
    BY <2>1
  <2> DEFINE h == [i \in 0 .. k + 1 |-> IF i = k + 1 THEN g[k + 1][f[k]] ELSE f[i]]
  <2>3. h \in [0 .. k + 1 -> X] /\ h[0] = base
    BY <2>1, <2>2
  <2>4. ASSUME NEW i \in 1 .. k + 1 PROVE h[i] = g[i][h[i - 1]]
    <3>1. CASE i = k + 1
      <4>1. h[i] = g[i][f[k]] /\ h[i - 1] = f[k]
        BY <2>2, <3>1
      <4> QED BY <4>1
    <3>2. CASE i # k + 1
      <4>1. i \in 1 .. k /\ h[i] = f[i] /\ h[i - 1] = f[i - 1]
        BY <2>2, <3>2
      <4> QED BY <2>1, <4>1
    <3> QED BY <3>1, <3>2
  <2>5. Runs(h, k + 1)
    BY <2>3, <2>4
  <2> HIDE DEF Runs
  <2> QED BY <2>2, <2>5
<1>3. n \in S
  <2> HIDE DEF S
  <2> QED BY <1>1, <1>2, EveryStep
<1> QED BY <1>3

(* Two loops that start alike and step alike. *)
LEMMA SameLoop ==
  ASSUME NEW n \in Nat, NEW f, NEW g, f[0] = g[0],
         \A i \in 1 .. n : f[i - 1] = g[i - 1] => f[i] = g[i]
  PROVE  f[n] = g[n]
<1> DEFINE S == {i \in 0 .. n : f[i] = g[i]}
<1>1. 0 \in S
  OBVIOUS
<1>2. ASSUME NEW i \in 0 .. n - 1, i \in S PROVE i + 1 \in S
  <2>1. i + 1 \in 1 .. n /\ i + 1 \in 0 .. n /\ (i + 1) - 1 = i /\ f[i] = g[i]
    BY <1>2
  <2> QED BY <2>1
<1>3. n \in S
  <2> HIDE DEF S
  <2> QED BY <1>1, <1>2, EveryStep
<1> QED BY <1>3

(* Only, the loop. *)
OnlyLoop(f, list, S) ==
  f = [i \in 0 .. Len(list) |->
         IF i = 0 THEN <<>> ELSE IF list[i] \in S THEN Append(f[i - 1], list[i]) ELSE f[i - 1]]

LEMMA OnlyIsLoop ==
  ASSUME NEW A, NEW list \in Seq(A), NEW S
  PROVE  \E f \in [0 .. Len(list) -> Seq(A)] : OnlyLoop(f, list, S) /\ Only(list, S) = f[Len(list)]
<1> DEFINE n == Len(list)
           g == [i \in 1 .. n |-> [x \in Seq(A) |-> IF list[i] \in S THEN Append(x, list[i]) ELSE x]]
<1>1. n \in Nat /\ <<>> \in Seq(A) /\ \A i \in 1 .. n : list[i] \in A
  OBVIOUS
<1>2. \A i \in 1 .. n : \A x \in Seq(A) : g[i][x] \in Seq(A)
  BY <1>1
<1>3. PICK f \in [0 .. n -> Seq(A)] : f[0] = <<>> /\ \A i \in 1 .. n : f[i] = g[i][f[i - 1]]
  <2> DEFINE X == Seq(A)
             base == <<>>
  <2>1. n \in Nat /\ base \in X /\ g \in [1 .. n -> [X -> X]]
    BY <1>1, <1>2
  <2> HIDE DEF g, n, X, base
  <2>2. \E f : f \in [0 .. n -> X] /\ f[0] = base /\ \A i \in 1 .. n : f[i] = g[i][f[i - 1]]
    BY <2>1, LoopRuns
  <2> QED BY <2>2 DEF X, base
<1>4. \A i \in 1 .. n : f[i - 1] \in Seq(A)
  <2>1. \A i \in 1 .. n : i - 1 \in 0 .. n
    BY <1>1
  <2> QED BY <1>3, <2>1
<1>5. \A i \in 1 .. n : f[i] = IF list[i] \in S THEN Append(f[i - 1], list[i]) ELSE f[i - 1]
  BY <1>3, <1>4
<1>6. OnlyLoop(f, list, S)
  <2>1. \A i \in 0 .. n : f[i] = IF i = 0 THEN <<>>
                                ELSE IF list[i] \in S THEN Append(f[i - 1], list[i]) ELSE f[i - 1]
    <3>1. \A i \in 0 .. n : i = 0 \/ i \in 1 .. n
      BY <1>1
    <3> HIDE DEF n
    <3> QED BY <1>3, <1>5, <3>1
  <2>2. f = [i \in 0 .. n |-> f[i]]
    BY <1>3
  <2> QED BY <2>1, <2>2 DEF OnlyLoop
<1> DEFINE h == CHOOSE h : OnlyLoop(h, list, S)
<1>7. OnlyLoop(h, list, S)
  BY <1>6
<1>8. Only(list, S) = h[n]
  BY DEF Only, OnlyLoop
<1> HIDE DEF h
<1>9. h = f
  <2>1. ASSUME NEW k \in 0 .. n PROVE f[k] = h[k]
    <3>1. f[0] = h[0] /\ \A i \in 1 .. k : f[i - 1] = h[i - 1] => f[i] = h[i]
      <4>1. 0 \in 0 .. n /\ \A i \in 1 .. k : i \in 0 .. n /\ i # 0
        BY <1>1
      <4> HIDE DEF n
      <4> QED BY <1>6, <1>7, <4>1 DEF OnlyLoop, n
    <3>2. k \in Nat
      BY <1>1
    <3> QED BY <3>1, <3>2, SameLoop
  <2>2. h = [i \in 0 .. n |-> h[i]] /\ f = [i \in 0 .. n |-> f[i]]
    BY <1>6, <1>7 DEF OnlyLoop
  <2> QED BY <2>1, <2>2
<1> QED BY <1>6, <1>8, <1>9

LEMMA OnlyEmpty ==
  ASSUME NEW S
  PROVE  Only(<<>>, S) = <<>>
<1>1. <<>> \in Seq({}) /\ Len(<<>>) = 0
  OBVIOUS
<1>2. PICK f : OnlyLoop(f, <<>>, S) /\ Only(<<>>, S) = f[0]
  BY <1>1, OnlyIsLoop
<1> QED BY <1>1, <1>2 DEF OnlyLoop

LEMMA OnlyType ==
  ASSUME NEW A, NEW S, NEW list \in Seq(A)
  PROVE  Only(list, S) \in Seq(A)
<1>1. Len(list) \in Nat
  OBVIOUS
<1>2. PICK f \in [0 .. Len(list) -> Seq(A)] : Only(list, S) = f[Len(list)]
  BY OnlyIsLoop
<1> QED BY <1>1, <1>2

LEMMA OnlyAppend ==
  ASSUME NEW A, NEW S, NEW list \in Seq(A), NEW x \in A
  PROVE  /\ Only(list, S) \in Seq(A)
         /\ Only(Append(list, x), S) = IF x \in S THEN Append(Only(list, S), x) ELSE Only(list, S)
<1> DEFINE n    == Len(list)
           more == Append(list, x)
<1>1. n \in Nat
  OBVIOUS
<1>2. PICK f \in [0 .. n -> Seq(A)] : OnlyLoop(f, list, S) /\ Only(list, S) = f[n]
  BY OnlyIsLoop
<1>3. /\ more \in Seq(A) /\ Len(more) = n + 1 /\ more[n + 1] = x
      /\ \A i \in 1 .. n : more[i] = list[i]
  OBVIOUS
<1> HIDE DEF more, n
<1>4. PICK g : OnlyLoop(g, more, S) /\ Only(more, S) = g[n + 1]
  <2>1. PICK g : OnlyLoop(g, more, S) /\ Only(more, S) = g[Len(more)]
    BY <1>3, OnlyIsLoop
  <2> QED BY <1>3, <2>1
<1>5. f[0] = g[0] /\ \A i \in 1 .. n : f[i - 1] = g[i - 1] => f[i] = g[i]
  <2>1. n = Len(list) /\ \A i \in 1 .. n : i \in 0 .. n /\ i \in 0 .. n + 1 /\ i # 0
    BY <1>1 DEF n
  <2>2. f[0] = <<>> /\ g[0] = <<>>
    BY <1>1, <1>2, <1>3, <1>4, <2>1 DEF OnlyLoop
  <2>3. ASSUME NEW i \in 1 .. n
        PROVE  /\ f[i] = IF list[i] \in S THEN Append(f[i - 1], list[i]) ELSE f[i - 1]
               /\ g[i] = IF list[i] \in S THEN Append(g[i - 1], list[i]) ELSE g[i - 1]
    BY <1>2, <1>3, <1>4, <2>1 DEF OnlyLoop
  <2> QED BY <2>2, <2>3
<1>6. f[n] = g[n]
  BY <1>1, <1>5, SameLoop
<1>7. g[n + 1] = IF x \in S THEN Append(g[n], x) ELSE g[n]
  <2>1. n + 1 \in 0 .. n + 1 /\ n + 1 # 0 /\ (n + 1) - 1 = n
    BY <1>1
  <2> QED BY <1>3, <1>4, <2>1 DEF OnlyLoop
<1>8. Only(list, S) \in Seq(A)
  BY <1>1, <1>2
<1> QED BY <1>2, <1>4, <1>6, <1>7, <1>8 DEF more

(* Values, the loop. *)
ValuesLoop(f, list, n) ==
  f = [i \in 0 .. Len(list) |->
         IF i = 0 THEN <<>>
         ELSE IF Key(list[i].name) = Key(n) THEN f[i - 1] \o list[i].values ELSE f[i - 1]]

WireHeader(N, V) == [name : N, values : Seq(V)]
WireList(N, V)   == Seq(WireHeader(N, V))

LEMMA ValuesIsLoop ==
  ASSUME NEW N, NEW V, NEW list \in WireList(N, V), NEW n
  PROVE  \E f \in [0 .. Len(list) -> Seq(V)] :
           ValuesLoop(f, list, n) /\ Values(list, n) = f[Len(list)]
<1> DEFINE k == Len(list)
           g == [i \in 1 .. k |->
                   [x \in Seq(V) |-> IF Key(list[i].name) = Key(n) THEN x \o list[i].values ELSE x]]
<1>1. k \in Nat /\ <<>> \in Seq(V) /\ \A i \in 1 .. k : list[i].values \in Seq(V)
  <2>1. k \in Nat /\ \A i \in 1 .. k : list[i] \in WireHeader(N, V)
    <3> DEFINE H == WireHeader(N, V)
    <3>1. list \in Seq(H)
      BY DEF WireList
    <3> HIDE DEF H
    <3>2. k \in Nat /\ \A i \in 1 .. k : list[i] \in H
      BY <3>1
    <3> QED BY <3>2 DEF H
  <2>2. \A h \in WireHeader(N, V) : h.values \in Seq(V)
    BY DEF WireHeader
  <2> HIDE DEF k
  <2> QED BY <2>1, <2>2
<1>2. \A i \in 1 .. k : \A x \in Seq(V) : g[i][x] \in Seq(V)
  BY <1>1
<1>3. PICK f \in [0 .. k -> Seq(V)] : f[0] = <<>> /\ \A i \in 1 .. k : f[i] = g[i][f[i - 1]]
  <2> DEFINE X == Seq(V)
             base == <<>>
  <2>1. k \in Nat /\ base \in X /\ g \in [1 .. k -> [X -> X]]
    BY <1>1, <1>2
  <2> HIDE DEF g, k, X, base
  <2>2. \E f : f \in [0 .. k -> X] /\ f[0] = base /\ \A i \in 1 .. k : f[i] = g[i][f[i - 1]]
    BY <2>1, LoopRuns
  <2> QED BY <2>2 DEF X, base
<1>4. \A i \in 1 .. k : f[i - 1] \in Seq(V)
  <2>1. \A i \in 1 .. k : i - 1 \in 0 .. k
    BY <1>1
  <2> QED BY <1>3, <2>1
<1>5. \A i \in 1 .. k :
        f[i] = IF Key(list[i].name) = Key(n) THEN f[i - 1] \o list[i].values ELSE f[i - 1]
  BY <1>3, <1>4
<1>6. ValuesLoop(f, list, n)
  <2>1. \A i \in 0 .. k : f[i] = IF i = 0 THEN <<>>
                                ELSE IF Key(list[i].name) = Key(n) THEN f[i - 1] \o list[i].values ELSE f[i - 1]
    <3>1. \A i \in 0 .. k : i = 0 \/ i \in 1 .. k
      BY <1>1
    <3> HIDE DEF k
    <3> QED BY <1>3, <1>5, <3>1
  <2>2. f = [i \in 0 .. k |-> f[i]]
    BY <1>3
  <2> QED BY <2>1, <2>2 DEF ValuesLoop
<1> DEFINE h == CHOOSE h : ValuesLoop(h, list, n)
<1>7. ValuesLoop(h, list, n)
  BY <1>6
<1>8. Values(list, n) = h[k]
  BY DEF Values, ValuesLoop
<1> HIDE DEF h
<1>9. h = f
  <2>1. ASSUME NEW m \in 0 .. k PROVE f[m] = h[m]
    <3>1. f[0] = h[0] /\ \A i \in 1 .. m : f[i - 1] = h[i - 1] => f[i] = h[i]
      <4>1. 0 \in 0 .. k /\ \A i \in 1 .. m : i \in 0 .. k /\ i # 0
        BY <1>1
      <4> HIDE DEF k
      <4> QED BY <1>6, <1>7, <4>1 DEF ValuesLoop, k
    <3>2. m \in Nat
      BY <1>1
    <3> QED BY <3>1, <3>2, SameLoop
  <2>2. h = [i \in 0 .. k |-> h[i]] /\ f = [i \in 0 .. k |-> f[i]]
    BY <1>6, <1>7 DEF ValuesLoop
  <2> QED BY <2>1, <2>2
<1> QED BY <1>6, <1>8, <1>9

LEMMA ValuesEmpty ==
  ASSUME NEW n
  PROVE  Values(<<>>, n) = <<>>
<1>1. <<>> \in WireList({}, {}) /\ Len(<<>>) = 0
  BY DEF WireList
<1>2. PICK f : ValuesLoop(f, <<>>, n) /\ Values(<<>>, n) = f[0]
  BY <1>1, ValuesIsLoop
<1> QED BY <1>1, <1>2 DEF ValuesLoop

LEMMA ValuesAppend ==
  ASSUME NEW N, NEW V, NEW n, NEW list \in WireList(N, V), NEW h \in WireHeader(N, V)
  PROVE  Values(Append(list, h), n)
           = IF Key(h.name) = Key(n) THEN Values(list, n) \o h.values ELSE Values(list, n)
<1> DEFINE k    == Len(list)
           more == Append(list, h)
<1>1. k \in Nat
  BY DEF WireList
<1>2. PICK f \in [0 .. k -> Seq(V)] : ValuesLoop(f, list, n) /\ Values(list, n) = f[k]
  BY ValuesIsLoop
<1>3. /\ more \in WireList(N, V) /\ Len(more) = k + 1 /\ more[k + 1] = h
      /\ \A i \in 1 .. k : more[i] = list[i]
  BY DEF WireList
<1> HIDE DEF more, k
<1>4. PICK g : ValuesLoop(g, more, n) /\ Values(more, n) = g[k + 1]
  <2>1. PICK g : ValuesLoop(g, more, n) /\ Values(more, n) = g[Len(more)]
    BY <1>3, ValuesIsLoop
  <2> QED BY <1>3, <2>1
<1>5. f[0] = g[0] /\ \A i \in 1 .. k : f[i - 1] = g[i - 1] => f[i] = g[i]
  <2>1. k = Len(list) /\ \A i \in 1 .. k : i \in 0 .. k /\ i \in 0 .. k + 1 /\ i # 0
    BY <1>1 DEF k
  <2>2. f[0] = <<>> /\ g[0] = <<>>
    BY <1>1, <1>2, <1>3, <1>4, <2>1 DEF ValuesLoop
  <2>3. ASSUME NEW i \in 1 .. k
        PROVE  /\ f[i] = IF Key(list[i].name) = Key(n) THEN f[i - 1] \o list[i].values ELSE f[i - 1]
               /\ g[i] = IF Key(list[i].name) = Key(n) THEN g[i - 1] \o list[i].values ELSE g[i - 1]
    <3>1. f[i] = IF Key(list[i].name) = Key(n) THEN f[i - 1] \o list[i].values ELSE f[i - 1]
      BY <1>2, <2>1 DEF ValuesLoop
    <3>2. g[i] = IF Key(more[i].name) = Key(n) THEN g[i - 1] \o more[i].values ELSE g[i - 1]
      BY <1>3, <1>4, <2>1 DEF ValuesLoop
    <3>3. more[i] = list[i]
      BY <1>3
    <3> QED BY <3>1, <3>2, <3>3
  <2> QED BY <2>2, <2>3
<1>6. f[k] = g[k]
  BY <1>1, <1>5, SameLoop
<1>7. g[k + 1] = IF Key(h.name) = Key(n) THEN g[k] \o h.values ELSE g[k]
  <2>1. k + 1 \in 0 .. k + 1 /\ k + 1 # 0 /\ (k + 1) - 1 = k
    BY <1>1
  <2> QED BY <1>3, <1>4, <2>1 DEF ValuesLoop
<1> QED BY <1>2, <1>4, <1>6, <1>7 DEF more

LEMMA OnlyAll ==
  ASSUME NEW A, NEW S, NEW list \in Seq(A), \A i \in 1 .. Len(list) : list[i] \in S
  PROVE  Only(list, S) = list
<1> DEFINE P == {l \in Seq(A) : (\A i \in 1 .. Len(l) : l[i] \in S) => Only(l, S) = l}
<1>1. <<>> \in P
  BY OnlyEmpty
<1>2. ASSUME NEW l \in Seq(A), l \in P, NEW x \in A PROVE Append(l, x) \in P
  <2>1. /\ Append(l, x) \in Seq(A) /\ Len(Append(l, x)) = Len(l) + 1 /\ Len(l) \in Nat
        /\ Append(l, x)[Len(l) + 1] = x /\ \A i \in 1 .. Len(l) : Append(l, x)[i] = l[i]
    OBVIOUS
  <2>2. ASSUME \A i \in 1 .. Len(l) + 1 : Append(l, x)[i] \in S
        PROVE  x \in S /\ \A i \in 1 .. Len(l) : l[i] \in S
    <3>1. Len(l) + 1 \in 1 .. Len(l) + 1 /\ \A i \in 1 .. Len(l) : i \in 1 .. Len(l) + 1
      BY <2>1
    <3> QED BY <2>1, <2>2, <3>1
  <2>3. Only(Append(l, x), S) = IF x \in S THEN Append(Only(l, S), x) ELSE Only(l, S)
    BY OnlyAppend
  <2>4. (\A i \in 1 .. Len(l) : l[i] \in S) => Only(l, S) = l
    BY <1>2
  <2> QED BY <2>1, <2>2, <2>3, <2>4
<1>3. list \in P
  <2> HIDE DEF P
  <2> QED BY <1>1, <1>2, EveryList
<1> QED BY <1>3

-----------------------------------------------------------------------------
(* How many entries of a list are of a file. *)

FileCount(list, f) == Cardinality({i \in DOMAIN list : list[i].file = f})

LEMMA FileCountEmpty ==
  ASSUME NEW f
  PROVE  FileCount(<<>>, f) = 0
<1>1. {i \in DOMAIN <<>> : <<>>[i].file = f} = {}
  OBVIOUS
<1> QED BY <1>1, FS_EmptySet DEF FileCount

LEMMA FileCountAppend ==
  ASSUME NEW A, NEW f, NEW list \in Seq(A), NEW x \in A
  PROVE  /\ FileCount(list, f) \in Nat
         /\ FileCount(Append(list, x), f) = FileCount(list, f) + (IF x.file = f THEN 1 ELSE 0)
<1> DEFINE D(l) == {i \in DOMAIN l : l[i].file = f}
           k    == Len(list)
           more == Append(list, x)
<1>1. IsFiniteSet(D(list)) /\ Cardinality(D(list)) \in Nat
  <2>1. D(list) \subseteq 1 .. k /\ IsFiniteSet(1 .. k)
    BY FS_Interval
  <2> QED BY <2>1, FS_Subset, FS_CardinalityType
<1>2. /\ DOMAIN more = 1 .. k + 1 /\ more[k + 1] = x /\ \A i \in 1 .. k : more[i] = list[i]
      /\ DOMAIN list = 1 .. k /\ k \in Nat
  OBVIOUS
<1>3. FileCount(list, f) = Cardinality(D(list)) /\ FileCount(more, f) = Cardinality(D(more))
  BY DEF FileCount
<1> HIDE DEF more, k
<1>4. /\ k + 1 \in 1 .. k + 1 /\ k + 1 \notin 1 .. k
      /\ \A i : i \in 1 .. k + 1 <=> i \in 1 .. k \/ i = k + 1
  BY <1>2
<1>5. D(more) = IF x.file = f THEN D(list) \cup {k + 1} ELSE D(list)
  BY <1>2, <1>4
<1>6. k + 1 \notin D(list)
  BY <1>2, <1>4
<1> HIDE DEF D
<1>7. Cardinality(D(list) \cup {k + 1}) = Cardinality(D(list)) + 1
  BY <1>1, <1>6, FS_AddElement
<1> QED BY <1>1, <1>3, <1>5, <1>7 DEF more

LEMMA FileCountType ==
  ASSUME NEW A, NEW f, NEW list \in Seq(A)
  PROVE  FileCount(list, f) \in Nat
<1>1. {i \in DOMAIN list : list[i].file = f} \subseteq 1 .. Len(list) /\ IsFiniteSet(1 .. Len(list))
  BY FS_Interval
<1> QED BY <1>1, FS_Subset, FS_CardinalityType DEF FileCount

LEMMA FileCountConcat ==
  ASSUME NEW A, NEW f, NEW s \in Seq(A), NEW list \in Seq(A)
  PROVE  FileCount(s \o list, f) = FileCount(s, f) + FileCount(list, f)
<1> DEFINE P == {t \in Seq(A) : FileCount(s \o t, f) = FileCount(s, f) + FileCount(t, f)}
<1>1. <<>> \in P
  <2>1. s \o <<>> = s /\ <<>> \in Seq(A)
    OBVIOUS
  <2>2. FileCount(<<>>, f) = 0 /\ FileCount(s, f) \in Nat
    BY FileCountEmpty, FileCountType
  <2> QED BY <2>1, <2>2
<1>2. ASSUME NEW t \in Seq(A), t \in P, NEW x \in A PROVE Append(t, x) \in P
  <2>1. s \o Append(t, x) = Append(s \o t, x) /\ s \o t \in Seq(A) /\ Append(t, x) \in Seq(A)
    OBVIOUS
  <2>2. FileCount(s \o t, f) = FileCount(s, f) + FileCount(t, f)
    BY <1>2
  <2> DEFINE one == IF x.file = f THEN 1 ELSE 0
  <2>3. one \in Nat
    OBVIOUS
  <2> HIDE DEF one
  <2>4. /\ FileCount(Append(s \o t, x), f) = FileCount(s \o t, f) + one
        /\ FileCount(Append(t, x), f) = FileCount(t, f) + one
        /\ FileCount(s, f) \in Nat /\ FileCount(t, f) \in Nat
    <3> DEFINE st == s \o t
    <3>1. st \in Seq(A)
      BY <2>1
    <3> HIDE DEF st
    <3>2. FileCount(Append(st, x), f) = FileCount(st, f) + one
      BY <3>1, FileCountAppend DEF one
    <3>3. FileCount(Append(t, x), f) = FileCount(t, f) + one
      BY FileCountAppend DEF one
    <3>4. FileCount(s, f) \in Nat /\ FileCount(t, f) \in Nat
      BY FileCountType
    <3> QED BY <3>2, <3>3, <3>4 DEF st
  <2>5. FileCount(s \o Append(t, x), f) = FileCount(s, f) + FileCount(Append(t, x), f)
    BY <2>1, <2>2, <2>3, <2>4
  <2> QED BY <2>1, <2>5
<1>3. list \in P
  <2> HIDE DEF P
  <2> QED BY <1>1, <1>2, EveryList
<1> QED BY <1>3

(* A list taken apart into what is in S and what is in T has all its files. *)
LEMMA FileCountApart ==
  ASSUME NEW A, NEW f, NEW S, NEW T, NEW list \in Seq(A),
         \A i \in 1 .. Len(list) : list[i] \in S <=> list[i] \notin T
  PROVE  FileCount(Only(list, S) \o Only(list, T), f) = FileCount(list, f)
<1> DEFINE P == {l \in Seq(A) : (\A i \in 1 .. Len(l) : l[i] \in S <=> l[i] \notin T) =>
                    FileCount(Only(l, S), f) + FileCount(Only(l, T), f) = FileCount(l, f)}
<1>1. <<>> \in P
  BY OnlyEmpty, FileCountEmpty
<1>2. ASSUME NEW l \in Seq(A), l \in P, NEW x \in A PROVE Append(l, x) \in P
  <2>0. Append(l, x) \in Seq(A)
    OBVIOUS
  <2> SUFFICES ASSUME \A i \in 1 .. Len(Append(l, x)) : Append(l, x)[i] \in S <=> Append(l, x)[i] \notin T
               PROVE  FileCount(Only(Append(l, x), S), f) + FileCount(Only(Append(l, x), T), f)
                        = FileCount(Append(l, x), f)
    BY <2>0
  <2>1. /\ Len(Append(l, x)) = Len(l) + 1 /\ Len(l) \in Nat
        /\ Append(l, x)[Len(l) + 1] = x /\ \A i \in 1 .. Len(l) : Append(l, x)[i] = l[i]
    OBVIOUS
  <2>2. Len(l) + 1 \in 1 .. Len(l) + 1 /\ \A i \in 1 .. Len(l) : i \in 1 .. Len(l) + 1
    BY <2>1
  <2>3. (x \in S <=> x \notin T) /\ \A i \in 1 .. Len(l) : l[i] \in S <=> l[i] \notin T
    BY <2>1, <2>2
  <2>4. FileCount(Only(l, S), f) + FileCount(Only(l, T), f) = FileCount(l, f)
    BY <1>2, <2>3
  <2> DEFINE one == IF x.file = f THEN 1 ELSE 0
  <2>5. one \in Nat
    OBVIOUS
  <2> HIDE DEF one
  <2>6. /\ Only(Append(l, x), S) = IF x \in S THEN Append(Only(l, S), x) ELSE Only(l, S)
        /\ Only(Append(l, x), T) = IF x \in T THEN Append(Only(l, T), x) ELSE Only(l, T)
        /\ Only(l, S) \in Seq(A) /\ Only(l, T) \in Seq(A)
    BY OnlyAppend
  <2>7. /\ FileCount(Append(l, x), f) = FileCount(l, f) + one
        /\ FileCount(Append(Only(l, S), x), f) = FileCount(Only(l, S), f) + one
        /\ FileCount(Append(Only(l, T), x), f) = FileCount(Only(l, T), f) + one
        /\ FileCount(Only(l, S), f) \in Nat /\ FileCount(Only(l, T), f) \in Nat
    BY <2>6, FileCountAppend DEF one
  <2>8. CASE x \in S
    BY <2>3, <2>4, <2>5, <2>6, <2>7, <2>8
  <2>9. CASE x \in T
    BY <2>3, <2>4, <2>5, <2>6, <2>7, <2>9
  <2> QED BY <2>3, <2>8, <2>9
<1>3. list \in P
  <2> HIDE DEF P
  <2> QED BY <1>1, <1>2, EveryList
<1>4. FileCount(Only(list, S), f) + FileCount(Only(list, T), f) = FileCount(list, f)
  BY <1>3
<1>5. Only(list, S) \in Seq(A) /\ Only(list, T) \in Seq(A)
  BY OnlyType
<1> QED BY <1>4, <1>5, FileCountConcat

-----------------------------------------------------------------------------
(* The values of one name in a list of wire headers. *)

LEMMA ValuesType ==
  ASSUME NEW N, NEW V, NEW n, NEW list \in WireList(N, V)
  PROVE  Values(list, n) \in Seq(V)
<1>1. Len(list) \in Nat
  BY DEF WireList
<1>2. PICK f \in [0 .. Len(list) -> Seq(V)] : Values(list, n) = f[Len(list)]
  BY ValuesIsLoop
<1> QED BY <1>1, <1>2

LEMMA ValuesConcat ==
  ASSUME NEW N, NEW V, NEW n, NEW s \in WireList(N, V), NEW list \in WireList(N, V)
  PROVE  Values(s \o list, n) = Values(s, n) \o Values(list, n)
<1> DEFINE H == WireHeader(N, V)
           P == {t \in Seq(H) : Values(s \o t, n) = Values(s, n) \o Values(t, n)}
<1> HIDE DEF H
<1>1. WireList(N, V) = Seq(H)
  BY DEF WireList, H
<1>2. Values(s, n) \in Seq(V)
  BY ValuesType
<1>3. <<>> \in P
  <2>1. s \o <<>> = s /\ <<>> \in Seq(H)
    BY <1>1
  <2>2. Values(s, n) \o <<>> = Values(s, n)
    BY <1>2
  <2> QED BY <2>1, <2>2, ValuesEmpty
<1>4. ASSUME NEW t \in Seq(H), t \in P, NEW h \in H PROVE Append(t, h) \in P
  <2>1. /\ s \o Append(t, h) = Append(s \o t, h) /\ s \o t \in Seq(H) /\ Append(t, h) \in Seq(H)
        /\ t \in WireList(N, V) /\ s \o t \in WireList(N, V)
    BY <1>1
  <2>2. Values(s \o t, n) = Values(s, n) \o Values(t, n)
    BY <1>4
  <2>3. h \in WireHeader(N, V) /\ h.values \in Seq(V)
    BY DEF H, WireHeader
  <2>4. /\ Values(Append(s \o t, h), n)
             = IF Key(h.name) = Key(n) THEN Values(s \o t, n) \o h.values ELSE Values(s \o t, n)
        /\ Values(Append(t, h), n)
             = IF Key(h.name) = Key(n) THEN Values(t, n) \o h.values ELSE Values(t, n)
    BY <2>1, <2>3, ValuesAppend
  <2>5. Values(t, n) \in Seq(V)
    BY <2>1, ValuesType
  <2>6. (Values(s, n) \o Values(t, n)) \o h.values = Values(s, n) \o (Values(t, n) \o h.values)
    <3> DEFINE a == Values(s, n)
               b == Values(t, n)
               c == h.values
    <3>1. a \in Seq(V) /\ b \in Seq(V) /\ c \in Seq(V)
      BY <1>2, <2>3, <2>5
    <3> HIDE DEF a, b, c
    <3>2. (a \o b) \o c = a \o (b \o c)
      BY <3>1
    <3> QED BY <3>2 DEF a, b, c
  <2>7. Values(s \o Append(t, h), n) = Values(s, n) \o Values(Append(t, h), n)
    BY <2>1, <2>2, <2>4, <2>6
  <2> QED BY <2>1, <2>7
<1>5. list \in Seq(H)
  BY <1>1
<1>6. list \in P
  <2> HIDE DEF P
  <2> QED BY <1>3, <1>4, <1>5, EveryList
<1> QED BY <1>6

LEMMA ValuesOne ==
  ASSUME NEW N, NEW V, NEW n, NEW h \in WireHeader(N, V)
  PROVE  Values(<<h>>, n) = IF Key(h.name) = Key(n) THEN h.values ELSE <<>>
<1> DEFINE none == <<>>
<1>1. Append(none, h) = <<h>>
  OBVIOUS
<1>6. none \in WireList(N, V)
  BY DEF WireList
<1>2. Values(none, n) = <<>>
  BY ValuesEmpty
<1> HIDE DEF none
<1>3. h.values \in Seq(V)
  BY DEF WireHeader
<1>4. <<>> \o h.values = h.values
  BY <1>3
<1>5. Values(Append(none, h), n)
        = IF Key(h.name) = Key(n) THEN Values(none, n) \o h.values ELSE Values(none, n)
  BY <1>6, ValuesAppend
<1> QED BY <1>1, <1>2, <1>4, <1>5

LEMMA ValuesNone ==
  ASSUME NEW N, NEW V, NEW n, NEW list \in WireList(N, V),
         \A i \in 1 .. Len(list) : Key(list[i].name) # Key(n)
  PROVE  Values(list, n) = <<>>
<1>1. PICK f \in [0 .. Len(list) -> Seq(V)] :
        ValuesLoop(f, list, n) /\ Values(list, n) = f[Len(list)]
  BY ValuesIsLoop
<1> DEFINE k == Len(list)
           g == [i \in 0 .. k |-> <<>>]
<1>2. k \in Nat
  BY DEF WireList
<1>3. \A i \in 1 .. k : i \in 0 .. k /\ i # 0 /\ i - 1 \in 0 .. k
  BY <1>2
<1>4. f[0] = <<>> /\ \A i \in 1 .. k : f[i] = f[i - 1]
  <2>1. f[0] = <<>>
    BY <1>1, <1>2 DEF ValuesLoop
  <2>2. ASSUME NEW i \in 1 .. k PROVE f[i] = f[i - 1]
    BY <1>1, <1>3 DEF ValuesLoop
  <2> QED BY <2>1, <2>2
<1>5. g[0] = <<>> /\ g[k] = <<>> /\ \A i \in 1 .. k : g[i] = <<>> /\ g[i - 1] = <<>>
  BY <1>2, <1>3
<1> HIDE DEF g, k
<1>6. f[0] = g[0] /\ \A i \in 1 .. k : f[i - 1] = g[i - 1] => f[i] = g[i]
  BY <1>4, <1>5
<1>7. f[k] = g[k]
  BY <1>2, <1>6, SameLoop
<1> QED BY <1>1, <1>5, <1>7 DEF k

(* Lists that have the same values wherever one has the name.               *)
LEMMA ValuesSame ==
  ASSUME NEW N, NEW V, NEW n, NEW s \in WireList(N, V), NEW t \in WireList(N, V), Len(s) = Len(t),
         \A i \in 1 .. Len(s) : /\ Key(s[i].name) = Key(n) <=> Key(t[i].name) = Key(n)
                                /\ Key(s[i].name) = Key(n) => s[i].values = t[i].values
  PROVE  Values(s, n) = Values(t, n)
<1> DEFINE k == Len(s)
<1>1. PICK f : ValuesLoop(f, s, n) /\ Values(s, n) = f[k]
  BY ValuesIsLoop
<1>2. PICK g : ValuesLoop(g, t, n) /\ Values(t, n) = g[k]
  <2>1. PICK g : ValuesLoop(g, t, n) /\ Values(t, n) = g[Len(t)]
    BY ValuesIsLoop
  <2> QED BY <2>1
<1>3. k \in Nat /\ k = Len(s) /\ k = Len(t)
  BY DEF WireList
<1>4. \A i \in 1 .. k : /\ Key(s[i].name) = Key(n) <=> Key(t[i].name) = Key(n)
                        /\ Key(s[i].name) = Key(n) => s[i].values = t[i].values
  OBVIOUS
<1> HIDE DEF k
<1>5. 0 \in 0 .. k /\ \A i \in 1 .. k : i \in 0 .. k /\ i # 0
  BY <1>3
<1>6. f[0] = g[0]
  BY <1>1, <1>2, <1>3, <1>5 DEF ValuesLoop
<1>7. ASSUME NEW i \in 1 .. k, f[i - 1] = g[i - 1] PROVE f[i] = g[i]
  <2>1. /\ f[i] = IF Key(s[i].name) = Key(n) THEN f[i - 1] \o s[i].values ELSE f[i - 1]
        /\ g[i] = IF Key(t[i].name) = Key(n) THEN g[i - 1] \o t[i].values ELSE g[i - 1]
    BY <1>1, <1>2, <1>3, <1>5 DEF ValuesLoop
  <2> QED BY <1>4, <1>7, <2>1
<1>8. f[k] = g[k]
  BY <1>3, <1>6, <1>7, SameLoop
<1> QED BY <1>1, <1>2, <1>8

(* One entry alone has the name.                                            *)
LEMMA ValuesAt ==
  ASSUME NEW N, NEW V, NEW n, NEW list \in WireList(N, V), NEW j \in 1 .. Len(list),
         Key(list[j].name) = Key(n),
         \A i \in 1 .. Len(list) : i # j => Key(list[i].name) # Key(n)
  PROVE  Values(list, n) = list[j].values
<1> DEFINE H == WireHeader(N, V)
           P == {l \in Seq(H) : \A k \in 1 .. Len(l) :
                   Key(l[k].name) = Key(n) /\ (\A i \in 1 .. Len(l) : i # k => Key(l[i].name) # Key(n))
                     => Values(l, n) = l[k].values}
<1> HIDE DEF H
<1>1. WireList(N, V) = Seq(H)
  BY DEF WireList, H
<1>2. <<>> \in P
  OBVIOUS
<1>3. ASSUME NEW l \in Seq(H), l \in P, NEW h \in H PROVE Append(l, h) \in P
  <2> DEFINE more == Append(l, h)
  <2>1. /\ more \in Seq(H) /\ Len(more) = Len(l) + 1 /\ Len(l) \in Nat
        /\ more[Len(l) + 1] = h /\ \A i \in 1 .. Len(l) : more[i] = l[i]
    OBVIOUS
  <2>2. h \in WireHeader(N, V) /\ h.values \in Seq(V) /\ l \in WireList(N, V)
    BY <1>1 DEF H, WireHeader
  <2>3. Values(more, n) = IF Key(h.name) = Key(n) THEN Values(l, n) \o h.values ELSE Values(l, n)
    BY <2>2, ValuesAppend
  <2> HIDE DEF more
  <2>4. ASSUME NEW k \in 1 .. Len(more), Key(more[k].name) = Key(n),
               \A i \in 1 .. Len(more) : i # k => Key(more[i].name) # Key(n)
        PROVE  Values(more, n) = more[k].values
    <3>1. /\ Len(l) + 1 \in 1 .. Len(more) /\ \A i \in 1 .. Len(l) : i \in 1 .. Len(more) /\ i # Len(l) + 1
          /\ k = Len(l) + 1 \/ k \in 1 .. Len(l)
      BY <2>1
    <3>2. CASE k = Len(l) + 1
      <4>1. \A i \in 1 .. Len(l) : Key(l[i].name) # Key(n)
        BY <2>1, <2>4, <3>1, <3>2
      <4>2. Values(l, n) = <<>>
        BY <2>2, <4>1, ValuesNone
      <4>3. <<>> \o h.values = h.values
        BY <2>2
      <4> QED BY <2>1, <2>3, <2>4, <3>2, <4>2, <4>3
    <3>3. CASE k \in 1 .. Len(l)
      <4>1. Key(l[k].name) = Key(n) /\ \A i \in 1 .. Len(l) : i # k => Key(l[i].name) # Key(n)
        BY <2>1, <2>4, <3>1, <3>3
      <4>2. Key(h.name) # Key(n)
        BY <2>1, <2>4, <3>1, <3>3
      <4>3. Values(l, n) = l[k].values
        BY <1>3, <3>3, <4>1
      <4> QED BY <2>1, <2>3, <3>3, <4>2, <4>3
    <3> QED BY <3>1, <3>2, <3>3
  <2>5. more \in P
    BY <2>1, <2>4
  <2> QED BY <2>5 DEF more
<1>4. list \in Seq(H)
  BY <1>1
<1>5. list \in P
  <2> HIDE DEF P
  <2> QED BY <1>2, <1>3, <1>4, EveryList
<1> QED BY <1>5

(* One header for each value.                                               *)
(* Headers of one name with one value each.                                 *)
Singles(name, list) == [i \in DOMAIN list |-> Header(name, list[i])]

LEMMA ValuesSingles ==
  ASSUME NEW N, NEW V, NEW name \in N, NEW n, Key(name) = Key(n), NEW list \in Seq(V)
  PROVE  Singles(name, list) \in WireList(N, V) /\ Values(Singles(name, list), n) = list
<1> DEFINE F(l) == [i \in DOMAIN l |-> Header(name, l[i])]
           P == {l \in Seq(V) : F(l) \in WireList(N, V) /\ Values(F(l), n) = l}
<1>1. <<>> \in P
  <2>1. F(<<>>) = <<>> /\ <<>> \in Seq(V)
    OBVIOUS
  <2>2. <<>> \in WireList(N, V)
    BY DEF WireList
  <2> QED BY <2>1, <2>2, ValuesEmpty
<1>2. ASSUME NEW l \in Seq(V), l \in P, NEW v \in V PROVE Append(l, v) \in P
  <2> DEFINE H == WireHeader(N, V)
             k == Len(l)
  <2>1. F(l) \in WireList(N, V) /\ Values(F(l), n) = l
    BY <1>2
  <2>2. Header(name, v) \in H /\ <<v>> \in Seq(V) /\ Header(name, v).values = <<v>>
        /\ Header(name, v).name = name
    BY DEF Header, WireHeader
  <2>3. /\ Append(l, v) \in Seq(V) /\ DOMAIN Append(l, v) = 1 .. k + 1 /\ Append(l, v)[k + 1] = v
        /\ \A i \in 1 .. k : Append(l, v)[i] = l[i]
        /\ DOMAIN l = 1 .. k /\ k \in Nat
    OBVIOUS
  <2>4. WireList(N, V) = Seq(H)
    BY DEF WireList
  <2> HIDE DEF H
  <2>5. F(Append(l, v)) = Append(F(l), Header(name, v))
    <3> DEFINE more == Append(l, v)
               s == F(more)
               t == Append(F(l), Header(name, v))
    <3>1. F(l) \in Seq(H) /\ Len(F(l)) = k
      BY <2>1, <2>3, <2>4
    <3>2. /\ t \in Seq(H) /\ DOMAIN t = 1 .. k + 1 /\ t[k + 1] = Header(name, v)
          /\ \A i \in 1 .. k : t[i] = F(l)[i]
      BY <2>2, <3>1
    <3>3. DOMAIN s = 1 .. k + 1 /\ \A i \in 1 .. k + 1 : s[i] = Header(name, more[i])
      BY <2>3
    <3>4. \A i \in 1 .. k + 1 : i \in 1 .. k \/ i = k + 1
      BY <2>3
    <3>5. \A i \in 1 .. k : F(l)[i] = Header(name, l[i])
      BY <2>3
    <3> HIDE DEF t, more
    <3>6. \A i \in 1 .. k + 1 : s[i] = t[i]
      BY <2>3, <3>2, <3>3, <3>4, <3>5 DEF more
    <3>7. s = [i \in 1 .. k + 1 |-> s[i]] /\ t = [i \in 1 .. k + 1 |-> t[i]]
      BY <3>2, <3>3
    <3>8. s = t
      BY <3>6, <3>7
    <3> QED BY <3>8 DEF t, more
  <2> HIDE DEF F
  <2>6. Append(F(l), Header(name, v)) \in WireList(N, V)
    BY <2>1, <2>2, <2>4
  <2>7. Values(Append(F(l), Header(name, v)), n) = Values(F(l), n) \o <<v>>
    <3> DEFINE h == Header(name, v)
    <3>1. h \in WireHeader(N, V)
      BY <2>2 DEF H
    <3>3. Key(h.name) = Key(n) /\ h.values = <<v>>
      BY <2>2
    <3>4. F(l) \in WireList(N, V)
      BY <2>1
    <3> HIDE DEF h
    <3>2. Values(Append(F(l), h), n)
            = IF Key(h.name) = Key(n) THEN Values(F(l), n) \o h.values ELSE Values(F(l), n)
      BY <3>1, <3>4, ValuesAppend
    <3> QED BY <3>2, <3>3 DEF h
  <2>8. Append(l, v) = l \o <<v>>
    BY AppendIsConcat
  <2> QED BY <2>1, <2>3, <2>5, <2>6, <2>7, <2>8
<1>3. list \in P
  <2> HIDE DEF P
  <2> QED BY <1>1, <1>2, EveryList
<1> QED BY <1>3 DEF Singles

-----------------------------------------------------------------------------
(* SendGrid's map of headers. *)

Unique(list) == \A k, l \in 1 .. Len(list) : Key(list[k].name) = Key(list[l].name) => k = l

LEMMA FoldedKeeps ==
  ASSUME NEW N, NEW V, NEW list \in WireList(N, V), NEW h \in WireHeader(N, V), Unique(list)
  PROVE  /\ Folded(list, h) \in WireList(N, V) /\ Unique(Folded(list, h))
         /\ \A n : Values(Folded(list, h), n) = Values(Append(list, h), n)
<1> DEFINE k == Len(list)
           x == Folded(list, h)
           H == WireHeader(N, V)
<1>1. list \in Seq(H) /\ k \in Nat /\ DOMAIN list = 1 .. k
  BY DEF WireList
<1>2. CASE \A i \in DOMAIN list : Key(list[i].name) # Key(h.name)
  <2>1. x = Append(list, h)
    BY <1>2 DEF Folded
  <2>2. /\ x \in Seq(H) /\ Len(x) = k + 1 /\ x[k + 1] = h /\ \A i \in 1 .. k : x[i] = list[i]
    <3> HIDE DEF H
    <3> QED BY <1>1, <2>1 DEF H
  <2> HIDE DEF x, k
  <2>3. Unique(x)
    <3>1. \A i \in 1 .. Len(x) : i \in 1 .. k \/ i = k + 1
      BY <1>1, <2>2
    <3>2. \A i \in 1 .. k : Key(x[i].name) # Key(h.name)
      BY <1>1, <1>2, <2>2
    <3> QED BY <2>2, <3>1, <3>2 DEF Unique, k
  <2> QED BY <2>1, <2>2, <2>3 DEF x, WireList
<1>3. CASE \E i \in DOMAIN list : Key(list[i].name) = Key(h.name)
  <2>1. PICK j \in 1 .. k : Key(list[j].name) = Key(h.name)
    BY <1>1, <1>3
  <2>2. \A i \in 1 .. k : list[i] \in H
    <3> HIDE DEF H
    <3> QED BY <1>1
  <2>3. /\ DOMAIN x = 1 .. k
        /\ \A i \in 1 .. k : x[i] = IF Key(list[i].name) = Key(h.name)
                                    THEN [list[i] EXCEPT !.values = @ \o h.values] ELSE list[i]
    BY <1>1, <1>3 DEF Folded
  <2> HIDE DEF x, k
  <2>4. ASSUME NEW i \in 1 .. k
        PROVE  /\ x[i] \in H /\ x[i].name = list[i].name
               /\ x[i].values = IF Key(list[i].name) = Key(h.name) THEN list[i].values \o h.values
                                ELSE list[i].values
    <3>1. list[i] \in [name : N, values : Seq(V)] /\ h.values \in Seq(V)
      BY <2>2 DEF WireHeader
    <3>2. list[i].values \o h.values \in Seq(V)
      BY <3>1
    <3> QED BY <2>3, <3>1, <3>2 DEF WireHeader
  <2>5. x \in Seq(H) /\ Len(x) = k
    <3>1. x = [i \in 1 .. k |-> x[i]]
      BY <2>3, <1>3 DEF x, Folded, k
    <3>2. x \in [1 .. k -> H]
      BY <2>4, <3>1
    <3> HIDE DEF H
    <3> QED BY <1>1, <3>2
  <2>6. x \in WireList(N, V)
    BY <2>5 DEF WireList
  <2>7. Unique(x)
    BY <2>4, <2>5 DEF Unique, k
  <2>8. ASSUME NEW n PROVE Values(x, n) = Values(Append(list, h), n)
    <3>1. Values(Append(list, h), n)
            = IF Key(h.name) = Key(n) THEN Values(list, n) \o h.values ELSE Values(list, n)
      BY ValuesAppend
    <3>2. CASE Key(h.name) = Key(n)
      <4>1. j \in 1 .. Len(list) /\ Key(list[j].name) = Key(n)
            /\ \A i \in 1 .. Len(list) : i # j => Key(list[i].name) # Key(n)
        BY <2>1, <3>2 DEF Unique, k
      <4>2. Values(list, n) = list[j].values
        BY <4>1, ValuesAt
      <4>3. j \in 1 .. Len(x) /\ Key(x[j].name) = Key(n)
            /\ \A i \in 1 .. Len(x) : i # j => Key(x[i].name) # Key(n)
        BY <2>4, <2>5, <4>1 DEF k
      <4>4. Values(x, n) = x[j].values
        BY <2>6, <4>3, ValuesAt
      <4> QED BY <2>1, <2>4, <3>1, <3>2, <4>2, <4>4
    <3>3. CASE Key(h.name) # Key(n)
      <4>1. \A i \in 1 .. Len(x) : /\ Key(x[i].name) = Key(n) <=> Key(list[i].name) = Key(n)
                                   /\ Key(x[i].name) = Key(n) => x[i].values = list[i].values
        BY <2>4, <2>5, <3>3
      <4>2. Len(x) = Len(list)
        BY <2>5 DEF k
      <4>3. Values(x, n) = Values(list, n)
        BY <2>6, <4>1, <4>2, ValuesSame
      <4> QED BY <3>1, <3>3, <4>3
    <3> QED BY <3>2, <3>3
  <2> QED BY <2>6, <2>7, <2>8 DEF x
<1> QED BY <1>1, <1>2, <1>3

CombinedLoop(f, list) ==
  f = [i \in 0 .. Len(list) |-> IF i = 0 THEN <<>> ELSE Folded(f[i - 1], list[i])]

(* No name twice, and no value lost.                                        *)
LEMMA CombinedKeeps ==
  ASSUME NEW N, NEW V, NEW list \in WireList(N, V)
  PROVE  /\ Combined(list) \in WireList(N, V) /\ Unique(Combined(list))
         /\ \A n : Values(Combined(list), n) = Values(list, n)
<1> DEFINE k == Len(list)
           X == {l \in WireList(N, V) : Unique(l)}
           g == [i \in 1 .. k |-> [x \in X |-> Folded(x, list[i])]]
           h == CHOOSE f : CombinedLoop(f, list)
<1>1. /\ k \in Nat /\ k = Len(list)
      /\ \A i \in 1 .. k : /\ list[i] \in WireHeader(N, V) /\ SubSeq(list, 1, i - 1) \in WireList(N, V)
                           /\ SubSeq(list, 1, i) = Append(SubSeq(list, 1, i - 1), list[i])
  BY DEF WireList
<1>2. SubSeq(list, 1, 0) = <<>> /\ SubSeq(list, 1, k) = list
  <2>1. SubSeq(list, 1, k) = list
    BY SubSeqFull DEF WireList
  <2> QED BY <2>1, SubSeqEmpty
<1>3. <<>> \in X
  BY DEF WireList, Unique
<1>4. \A i \in 1 .. k : \A x \in X : Folded(x, list[i]) \in X
  BY <1>1, FoldedKeeps
<1>5. h[0] = <<>> /\ \A i \in 1 .. k : h[i] = Folded(h[i - 1], list[i])
  <2>1. g \in [1 .. k -> [X -> X]]
    BY <1>4
  <2>2. PICK f : f \in [0 .. k -> X] /\ f[0] = <<>> /\ \A i \in 1 .. k : f[i] = g[i][f[i - 1]]
    <3> DEFINE base == <<>>
    <3>1. base \in X /\ k \in Nat
      BY <1>1, <1>3
    <3> HIDE DEF g, k, X, base
    <3>2. \E f : f \in [0 .. k -> X] /\ f[0] = base /\ \A i \in 1 .. k : f[i] = g[i][f[i - 1]]
      BY <2>1, <3>1, LoopRuns
    <3> QED BY <3>2 DEF base
  <2>3. \A i \in 1 .. k : f[i] = Folded(f[i - 1], list[i])
    <3>1. \A i \in 1 .. k : i - 1 \in 0 .. k
      BY <1>1
    <3> HIDE DEF k, X
    <3> QED BY <2>2, <3>1
  <2> HIDE DEF k, X, g
  <2>4. \A i \in 0 .. k : i = 0 \/ i \in 1 .. k
    BY <1>1
  <2>5. \A i \in 0 .. k : f[i] = IF i = 0 THEN <<>> ELSE Folded(f[i - 1], list[i])
    BY <2>2, <2>3, <2>4
  <2>6. f = [i \in 0 .. k |-> f[i]]
    BY <2>2
  <2>7. CombinedLoop(f, list)
    BY <2>5, <2>6 DEF CombinedLoop, k
  <2>8. CombinedLoop(h, list)
    BY <2>7
  <2>9. 0 \in 0 .. k /\ \A i \in 1 .. k : i \in 0 .. k /\ i # 0
    BY <1>1
  <2> HIDE DEF h
  <2> QED BY <1>1, <2>8, <2>9 DEF CombinedLoop
<1>6. Combined(list) = h[k]
  BY DEF Combined, CombinedLoop
<1> HIDE DEF h, g, k
<1> DEFINE S == {i \in 0 .. k : h[i] \in X /\ \A n : Values(h[i], n) = Values(SubSeq(list, 1, i), n)}
<1>7. 0 \in S
  <2>1. h[0] \in X
    BY <1>3, <1>5
  <2>2. \A n : Values(h[0], n) = Values(SubSeq(list, 1, 0), n)
    BY <1>2, <1>5
  <2>3. 0 \in 0 .. k
    BY <1>1
  <2> HIDE DEF X
  <2> QED BY <2>1, <2>2, <2>3
<1>8. ASSUME NEW i \in 0 .. k - 1, i \in S PROVE i + 1 \in S
  <2> DEFINE p == SubSeq(list, 1, i)
             x == list[i + 1]
  <2>1. i + 1 \in 1 .. k /\ (i + 1) - 1 = i /\ i + 1 \in 0 .. k
    BY <1>1
  <2>2. /\ x \in WireHeader(N, V) /\ p \in WireList(N, V)
        /\ SubSeq(list, 1, i + 1) = Append(p, x) /\ h[i + 1] = Folded(h[i], x)
    BY <1>1, <1>5, <2>1
  <2>3. h[i] \in WireList(N, V) /\ Unique(h[i]) /\ \A n : Values(h[i], n) = Values(p, n)
    BY <1>8
  <2> HIDE DEF x, p
  <2>4. /\ h[i + 1] \in WireList(N, V) /\ Unique(h[i + 1])
        /\ \A n : Values(h[i + 1], n) = Values(Append(h[i], x), n)
    BY <2>2, <2>3, FoldedKeeps
  <2>5. ASSUME NEW n PROVE Values(h[i + 1], n) = Values(Append(p, x), n)
    <3>1. Values(Append(h[i], x), n)
            = IF Key(x.name) = Key(n) THEN Values(h[i], n) \o x.values ELSE Values(h[i], n)
      <4> DEFINE y == h[i]
      <4>1. y \in WireList(N, V) /\ x \in WireHeader(N, V)
        BY <2>2, <2>3
      <4> HIDE DEF y
      <4>2. Values(Append(y, x), n)
              = IF Key(x.name) = Key(n) THEN Values(y, n) \o x.values ELSE Values(y, n)
        BY <4>1, ValuesAppend
      <4> QED BY <4>2 DEF y
    <3>2. Values(Append(p, x), n)
            = IF Key(x.name) = Key(n) THEN Values(p, n) \o x.values ELSE Values(p, n)
      BY <2>2, ValuesAppend
    <3> QED BY <2>3, <2>4, <3>1, <3>2
  <2> QED BY <2>1, <2>2, <2>4, <2>5
<1>9. k \in S
  <2> HIDE DEF S
  <2> QED BY <1>1, <1>7, <1>8, EveryStep
<1> QED BY <1>2, <1>6, <1>9

-----------------------------------------------------------------------------
(* lettre's map of headers. *)

LEMMA InsertRawKeeps ==
  ASSUME NEW N, NEW V, NEW list \in WireList(N, V), NEW h \in WireHeader(N, V), Unique(list)
  PROVE  /\ InsertRaw(list, h) \in WireList(N, V) /\ Unique(InsertRaw(list, h))
         /\ \A n : Values(InsertRaw(list, h), n)
                     = IF Key(h.name) = Key(n) THEN h.values ELSE Values(list, n)
<1> DEFINE k == Len(list)
           x == InsertRaw(list, h)
           H == WireHeader(N, V)
<1>1. list \in Seq(H) /\ k \in Nat /\ DOMAIN list = 1 .. k
  BY DEF WireList
<1>2. CASE \A i \in DOMAIN list : Key(list[i].name) # Key(h.name)
  <2>1. x = Append(list, h)
    BY <1>2 DEF InsertRaw
  <2>2. /\ x \in Seq(H) /\ Len(x) = k + 1 /\ x[k + 1] = h /\ \A i \in 1 .. k : x[i] = list[i]
    <3> HIDE DEF H
    <3> QED BY <1>1, <2>1 DEF H
  <2> HIDE DEF x, k
  <2>3. Unique(x)
    <3>1. \A i \in 1 .. Len(x) : i \in 1 .. k \/ i = k + 1
      BY <1>1, <2>2
    <3>2. \A i \in 1 .. k : Key(x[i].name) # Key(h.name)
      BY <1>1, <1>2, <2>2
    <3> QED BY <2>2, <3>1, <3>2 DEF Unique, k
  <2>4. ASSUME NEW n PROVE Values(x, n) = IF Key(h.name) = Key(n) THEN h.values ELSE Values(list, n)
    <3>1. Values(x, n) = IF Key(h.name) = Key(n) THEN Values(list, n) \o h.values ELSE Values(list, n)
      BY <2>1, ValuesAppend
    <3>2. CASE Key(h.name) = Key(n)
      <4>1. \A i \in 1 .. Len(list) : Key(list[i].name) # Key(n)
        BY <1>1, <1>2, <3>2 DEF k
      <4>2. Values(list, n) = <<>>
        BY <4>1, ValuesNone
      <4>3. h.values \in Seq(V)
        BY DEF WireHeader
      <4>4. <<>> \o h.values = h.values
        BY <4>3
      <4> QED BY <3>1, <3>2, <4>2, <4>4
    <3> QED BY <3>1, <3>2
  <2> QED BY <2>2, <2>3, <2>4 DEF x, WireList
<1>3. CASE \E i \in DOMAIN list : Key(list[i].name) = Key(h.name)
  <2>1. PICK j \in 1 .. k : Key(list[j].name) = Key(h.name)
    BY <1>1, <1>3
  <2>2. \A i \in 1 .. k : list[i] \in H
    <3> HIDE DEF H
    <3> QED BY <1>1
  <2>3. /\ DOMAIN x = 1 .. k
        /\ \A i \in 1 .. k : x[i] = IF Key(list[i].name) = Key(h.name) THEN h ELSE list[i]
    BY <1>1, <1>3 DEF InsertRaw
  <2>4. x = [i \in 1 .. k |-> x[i]]
    BY <1>3, <2>3 DEF InsertRaw
  <2> HIDE DEF x, k
  <2>5. \A i \in 1 .. k : /\ x[i] \in H /\ Key(x[i].name) = Key(list[i].name)
                          /\ Key(list[i].name) # Key(h.name) => x[i] = list[i]
    BY <2>2, <2>3
  <2>6. x \in Seq(H) /\ Len(x) = k
    <3>1. x \in [1 .. k -> H]
      BY <2>4, <2>5
    <3> HIDE DEF H
    <3> QED BY <1>1, <3>1
  <2>7. x \in WireList(N, V)
    BY <2>6 DEF WireList
  <2>8. Unique(x)
    BY <2>5, <2>6 DEF Unique, k
  <2>9. ASSUME NEW n PROVE Values(x, n) = IF Key(h.name) = Key(n) THEN h.values ELSE Values(list, n)
    <3>1. CASE Key(h.name) = Key(n)
      <4>1. /\ j \in 1 .. Len(x) /\ Key(x[j].name) = Key(n) /\ x[j] = h
            /\ \A i \in 1 .. Len(x) : i # j => Key(x[i].name) # Key(n)
        BY <2>1, <2>3, <2>5, <2>6, <2>8, <3>1 DEF Unique
      <4>2. Values(x, n) = x[j].values
        BY <2>7, <4>1, ValuesAt
      <4> QED BY <3>1, <4>1, <4>2
    <3>2. CASE Key(h.name) # Key(n)
      <4>1. \A i \in 1 .. Len(x) : /\ Key(x[i].name) = Key(n) <=> Key(list[i].name) = Key(n)
                                   /\ Key(x[i].name) = Key(n) => x[i].values = list[i].values
        BY <2>5, <2>6, <3>2
      <4>2. Len(x) = Len(list)
        BY <2>6 DEF k
      <4>3. Values(x, n) = Values(list, n)
        BY <2>7, <4>1, <4>2, ValuesSame
      <4> QED BY <3>2, <4>3
    <3> QED BY <3>1, <3>2
  <2> QED BY <2>7, <2>8, <2>9 DEF x
<1> QED BY <1>1, <1>2, <1>3

InsertedLoop(f, list) ==
  f = [i \in 0 .. Len(list) |-> IF i = 0 THEN <<>> ELSE InsertRaw(f[i - 1], list[i])]

(* What is left of a list of values of which each replaces the one before. *)
LastOf(values) == IF values = <<>> THEN <<>> ELSE << values[Len(values)] >>

LEMMA LastOfConcat ==
  ASSUME NEW V, NEW s \in Seq(V), NEW t \in Seq(V), Len(t) = 1
  PROVE  LastOf(s \o t) = t
<1>1. t = << t[1] >> /\ Len(s) \in Nat
  OBVIOUS
<1> DEFINE u == s \o t
<1>2. Len(u) = Len(s) + 1 /\ Len(s) \in Nat /\ u[Len(s) + 1] = t[1]
  <2>1. /\ Len(u) = Len(s) + Len(t)
        /\ \A i \in 1 .. Len(s) + Len(t) : u[i] = IF i <= Len(s) THEN s[i] ELSE t[i - Len(s)]
    BY ConcatProperties, Zenon
  <2> HIDE DEF u
  <2> QED BY <1>1, <2>1
<1>3. Len(<<>>) = 0
  OBVIOUS
<1> HIDE DEF u
<1>4. LastOf(u) = <<u[Len(u)]>>
  BY <1>2, <1>3 DEF LastOf
<1> QED BY <1>1, <1>2, <1>4 DEF u

Plain(list) == \A i \in 1 .. Len(list) : Len(list[i].values) = 1

(* No name twice, and of each name the value that was set last.             *)
LEMMA InsertedKeeps ==
  ASSUME NEW N, NEW V, NEW list \in WireList(N, V), Plain(list)
  PROVE  /\ Inserted(list) \in WireList(N, V) /\ Unique(Inserted(list))
         /\ \A n : Values(Inserted(list), n) = LastOf(Values(list, n))
<1> DEFINE k == Len(list)
           X == {l \in WireList(N, V) : Unique(l)}
           g == [i \in 1 .. k |-> [x \in X |-> InsertRaw(x, list[i])]]
           h == CHOOSE f : InsertedLoop(f, list)
<1>1. /\ k \in Nat /\ k = Len(list)
      /\ \A i \in 1 .. k : /\ list[i] \in WireHeader(N, V) /\ SubSeq(list, 1, i - 1) \in WireList(N, V)
                           /\ SubSeq(list, 1, i) = Append(SubSeq(list, 1, i - 1), list[i])
  BY DEF WireList
<1>2. SubSeq(list, 1, 0) = <<>> /\ SubSeq(list, 1, k) = list
  <2>1. SubSeq(list, 1, k) = list
    BY SubSeqFull DEF WireList
  <2> QED BY <2>1, SubSeqEmpty
<1>3. <<>> \in X
  BY DEF WireList, Unique
<1>4. \A i \in 1 .. k : \A x \in X : InsertRaw(x, list[i]) \in X
  BY <1>1, InsertRawKeeps
<1>5. h[0] = <<>> /\ \A i \in 1 .. k : h[i] = InsertRaw(h[i - 1], list[i])
  <2>1. g \in [1 .. k -> [X -> X]]
    BY <1>4
  <2>2. PICK f : f \in [0 .. k -> X] /\ f[0] = <<>> /\ \A i \in 1 .. k : f[i] = g[i][f[i - 1]]
    <3> DEFINE base == <<>>
    <3>1. base \in X /\ k \in Nat
      BY <1>1, <1>3
    <3> HIDE DEF g, k, X, base
    <3>2. \E f : f \in [0 .. k -> X] /\ f[0] = base /\ \A i \in 1 .. k : f[i] = g[i][f[i - 1]]
      BY <2>1, <3>1, LoopRuns
    <3> QED BY <3>2 DEF base
  <2>3. \A i \in 1 .. k : f[i] = InsertRaw(f[i - 1], list[i])
    <3>1. \A i \in 1 .. k : i - 1 \in 0 .. k
      BY <1>1
    <3> HIDE DEF k, X
    <3> QED BY <2>2, <3>1
  <2> HIDE DEF k, X, g
  <2>4. \A i \in 0 .. k : i = 0 \/ i \in 1 .. k
    BY <1>1
  <2>5. \A i \in 0 .. k : f[i] = IF i = 0 THEN <<>> ELSE InsertRaw(f[i - 1], list[i])
    BY <2>2, <2>3, <2>4
  <2>6. f = [i \in 0 .. k |-> f[i]]
    BY <2>2
  <2>7. InsertedLoop(f, list)
    BY <2>5, <2>6 DEF InsertedLoop, k
  <2>8. InsertedLoop(h, list)
    BY <2>7
  <2>9. 0 \in 0 .. k /\ \A i \in 1 .. k : i \in 0 .. k /\ i # 0
    BY <1>1
  <2> HIDE DEF h
  <2> QED BY <1>1, <2>8, <2>9 DEF InsertedLoop
<1>6. Inserted(list) = h[k]
  BY DEF Inserted, InsertedLoop
<1> HIDE DEF h, g, k
<1> DEFINE S == {i \in 0 .. k : h[i] \in X /\ \A n : Values(h[i], n) = LastOf(Values(SubSeq(list, 1, i), n))}
<1>7. 0 \in S
  <2>1. h[0] \in X
    BY <1>3, <1>5
  <2>2. \A n : Values(h[0], n) = LastOf(Values(SubSeq(list, 1, 0), n))
    BY <1>2, <1>5, ValuesEmpty DEF LastOf
  <2>3. 0 \in 0 .. k
    BY <1>1
  <2> HIDE DEF X
  <2> QED BY <2>1, <2>2, <2>3
<1>8. ASSUME NEW i \in 0 .. k - 1, i \in S PROVE i + 1 \in S
  <2> DEFINE p == SubSeq(list, 1, i)
             x == list[i + 1]
  <2>1. i + 1 \in 1 .. k /\ (i + 1) - 1 = i /\ i + 1 \in 0 .. k
    BY <1>1
  <2>2. /\ x \in WireHeader(N, V) /\ p \in WireList(N, V) /\ Len(x.values) = 1
        /\ SubSeq(list, 1, i + 1) = Append(p, x) /\ h[i + 1] = InsertRaw(h[i], x)
    BY <1>1, <1>5, <2>1 DEF k, Plain
  <2>3. h[i] \in WireList(N, V) /\ Unique(h[i]) /\ \A n : Values(h[i], n) = LastOf(Values(p, n))
    BY <1>8
  <2> HIDE DEF x, p
  <2>4. /\ h[i + 1] \in WireList(N, V) /\ Unique(h[i + 1])
        /\ \A n : Values(h[i + 1], n) = IF Key(x.name) = Key(n) THEN x.values ELSE Values(h[i], n)
    BY <2>2, <2>3, InsertRawKeeps
  <2>5. ASSUME NEW n PROVE Values(h[i + 1], n) = LastOf(Values(Append(p, x), n))
    <3>1. Values(Append(p, x), n)
            = IF Key(x.name) = Key(n) THEN Values(p, n) \o x.values ELSE Values(p, n)
      BY <2>2, ValuesAppend
    <3>2. Values(p, n) \in Seq(V)
      BY <2>2, ValuesType
    <3>3. x.values \in Seq(V)
      BY <2>2 DEF WireHeader
    <3>4. LastOf(Values(p, n) \o x.values) = x.values
      BY <2>2, <3>2, <3>3, LastOfConcat
    <3> QED BY <2>3, <2>4, <3>1, <3>4
  <2> QED BY <2>1, <2>2, <2>4, <2>5
<1>9. k \in S
  <2> HIDE DEF S
  <2> QED BY <1>1, <1>7, <1>8, EveryStep
<1> QED BY <1>2, <1>6, <1>9

-----------------------------------------------------------------------------
(* The headers of a message. *)

Levels3 == {"High", "Normal", "Low"}
IdSet   == Ids \cup {Minted}
Names   == {h.name : h \in Headers} \cup {"X-Priority", "X-MSMail-Priority", "Importance",
                                          "Message-ID", "In-Reply-To", "References"}
HeaderValues == {h.value : h \in Headers} \cup ((1 .. 5) \X Levels3) \cup Levels3
                \cup IdSet \cup {AngleWrapped(i) : i \in IdSet}

(* What the builder fills in besides addresses.                             *)
Filled(e) ==
  /\ e.text \in BOOLEAN /\ e.html \in BOOLEAN
  /\ e.headers \in Seq(Headers) /\ e.attachments \in Seq(Attachments)
  /\ e.message_id \in IdSet \cup {None} /\ e.in_reply_to \in IdSet \cup {None}
  /\ e.references \in Seq(IdSet) /\ e.priority \in {None} \cup 1 .. 5

(* The keys of a list are all in K.                                         *)
KeysIn(list, K) == \A i \in 1 .. Len(list) : Key(list[i].name) \in K

LEMMA WrappedId ==
  ASSUME NEW i \in IdSet
  PROVE  AngleWrapped(i).id = i.id
<1>1. Minted \in [id : {"minted"}, clean : BOOLEAN, brackets : BOOLEAN]
  BY DEF Minted
<1>2. PICK X : i \in [id : X, clean : BOOLEAN, brackets : BOOLEAN]
  BY <1>1, MessageConfig DEF IdSet
<1> QED BY <1>2 DEF AngleWrapped

LEMMA KeysConcat ==
  ASSUME NEW N, NEW V, NEW K, NEW s \in WireList(N, V), NEW t \in WireList(N, V),
         KeysIn(s, K), KeysIn(t, K)
  PROVE  s \o t \in WireList(N, V) /\ KeysIn(s \o t, K)
<1> DEFINE H == WireHeader(N, V)
<1>1. s \in Seq(H) /\ t \in Seq(H)
  BY DEF WireList
<1> HIDE DEF H
<1>2. /\ s \o t \in Seq(H) /\ Len(s \o t) = Len(s) + Len(t) /\ Len(s) \in Nat /\ Len(t) \in Nat
      /\ \A i \in 1 .. Len(s) + Len(t) : (s \o t)[i] = IF i <= Len(s) THEN s[i] ELSE t[i - Len(s)]
  BY <1>1
<1>3. \A i \in 1 .. Len(s) + Len(t) : i \in 1 .. Len(s) \/ (~(i <= Len(s)) /\ i - Len(s) \in 1 .. Len(t))
  BY <1>2
<1>4. \A i \in 1 .. Len(s) : i <= Len(s)
  BY <1>2
<1>5. KeysIn(s \o t, K)
  BY <1>2, <1>3, <1>4 DEF KeysIn
<1> QED BY <1>2, <1>5 DEF WireList, H

LEMMA KeysNone ==
  ASSUME NEW N, NEW V, NEW K, NEW n, NEW list \in WireList(N, V), KeysIn(list, K), Key(n) \notin K
  PROVE  Values(list, n) = <<>>
BY ValuesNone DEF KeysIn

(* Headers of reserved names and others, in either order.                   *)
LEMMA ValuesApart ==
  ASSUME NEW N, NEW V, NEW K, NEW L, NEW n, NEW s \in WireList(N, V), NEW t \in WireList(N, V),
         KeysIn(s, K), KeysIn(t, L), K \cap L = {}
  PROVE  /\ Key(n) \in K => Values(s \o t, n) = Values(s, n) /\ Values(t \o s, n) = Values(s, n)
         /\ Key(n) \in L => Values(s \o t, n) = Values(t, n) /\ Values(t \o s, n) = Values(t, n)
<1>1. Values(s \o t, n) = Values(s, n) \o Values(t, n) /\ Values(t \o s, n) = Values(t, n) \o Values(s, n)
  BY ValuesConcat
<1>2. Values(s, n) \in Seq(V) /\ Values(t, n) \in Seq(V)
  BY ValuesType
<1>3. \A v \in Seq(V) : v \o <<>> = v /\ <<>> \o v = v
  OBVIOUS
<1>4. Key(n) \in K => Values(t, n) = <<>>
  BY KeysNone
<1>5. Key(n) \in L => Values(s, n) = <<>>
  BY KeysNone
<1> QED BY <1>1, <1>2, <1>3, <1>4, <1>5

LEMMA OneHeader ==
  ASSUME NEW name \in Names, NEW v \in HeaderValues
  PROVE  /\ <<Header(name, v)>> \in WireList(Names, HeaderValues)
         /\ KeysIn(<<Header(name, v)>>, {Key(name)})
         /\ Values(<<Header(name, v)>>, name) = <<v>>
<1> DEFINE h == Header(name, v)
<1>1. h \in WireHeader(Names, HeaderValues) /\ h.name = name /\ h.values = <<v>>
  BY DEF Header, WireHeader
<1> HIDE DEF h
<1>2. <<h>> \in WireList(Names, HeaderValues) /\ KeysIn(<<h>>, {Key(name)})
  BY <1>1 DEF WireList, KeysIn
<1>3. Values(<<h>>, name) = IF Key(h.name) = Key(name) THEN h.values ELSE <<>>
  <2>1. h \in WireHeader(Names, HeaderValues)
    BY <1>1
  <2> QED BY <2>1, ValuesOne
<1> QED BY <1>1, <1>2, <1>3 DEF h

(* What the message's identifiers become as headers: an id, and a list. *)
IdHeader(name, id, list) ==
  /\ list \in WireList(Names, HeaderValues) /\ KeysIn(list, {Key(name)})
  /\ id # None => IdsOf(list, name) = <<id.id>>

RefHeaders(refs, list) ==
  /\ list \in WireList(Names, HeaderValues) /\ KeysIn(list, {Key("References")})
  /\ IdsOf(list, "References") = [i \in DOMAIN refs |-> refs[i].id]

LEMMA IdHeaderIs ==
  ASSUME NEW name \in Names, NEW id \in IdSet \cup {None}, NEW v, v \in {id, AngleWrapped(id)}
  PROVE  IdHeader(name, id, IF id = None THEN <<>> ELSE <<Header(name, v)>>)
<1>1. CASE id = None
  BY <1>1 DEF IdHeader, WireList, KeysIn
<1>2. CASE id # None
  <2>1. v \in HeaderValues /\ v.id = id.id
    BY <1>2, WrappedId DEF HeaderValues
  <2>2. /\ <<Header(name, v)>> \in WireList(Names, HeaderValues)
        /\ KeysIn(<<Header(name, v)>>, {Key(name)})
        /\ Values(<<Header(name, v)>>, name) = <<v>>
    BY <2>1, OneHeader
  <2>3. IdsOf(<<Header(name, v)>>, name) = <<id.id>>
    BY <2>1, <2>2 DEF IdsOf
  <2> QED BY <1>2, <2>2, <2>3 DEF IdHeader
<1> QED BY <1>1, <1>2

LEMMA RefsEach ==
  ASSUME NEW refs \in Seq(IdSet)
  PROVE  RefHeaders(refs, [i \in DOMAIN refs |-> Header("References", refs[i])])
<1> DEFINE list == [i \in DOMAIN refs |-> Header("References", refs[i])]
<1>1. refs \in Seq(HeaderValues) /\ "References" \in Names
  BY DEF HeaderValues, Names
<1>2. list \in WireList(Names, HeaderValues) /\ Values(list, "References") = refs
  <2> DEFINE N == Names
             V == HeaderValues
             name == "References"
             n == "References"
  <2>1. name \in N /\ refs \in Seq(V) /\ Key(name) = Key(n)
    BY <1>1
  <2> HIDE DEF N, V, name, n
  <2>2. Singles(name, refs) \in WireList(N, V) /\ Values(Singles(name, refs), n) = refs
    BY <2>1, ValuesSingles
  <2> QED BY <2>2 DEF N, V, name, n, Singles
<1>3. KeysIn(list, {Key("References")})
  BY DEF KeysIn, Header
<1> HIDE DEF list
<1>4. IdsOf(list, "References") = [i \in DOMAIN refs |-> refs[i].id]
  BY <1>2 DEF IdsOf
<1> QED BY <1>2, <1>3, <1>4 DEF RefHeaders, list

LEMMA RefsJoined ==
  ASSUME NEW refs \in Seq(IdSet)
  PROVE  RefHeaders(refs, IF refs = <<>> THEN <<>>
                          ELSE << [name |-> "References",
                                   values |-> [i \in DOMAIN refs |-> AngleWrapped(refs[i])]] >>)
<1>1. CASE refs = <<>>
  <2>1. Values(<<>>, "References") = <<>>
    BY ValuesEmpty
  <2>2. IdsOf(<<>>, "References") = [i \in DOMAIN refs |-> refs[i].id]
    BY <1>1, <2>1 DEF IdsOf
  <2> QED BY <1>1, <2>2 DEF RefHeaders, WireList, KeysIn
<1>2. CASE refs # <<>>
  <2> DEFINE ids == [i \in DOMAIN refs |-> AngleWrapped(refs[i])]
             h   == [name |-> "References", values |-> ids]
  <2>1. ids \in Seq(HeaderValues)
    <3>1. \A i \in DOMAIN refs : AngleWrapped(refs[i]) \in HeaderValues
      BY DEF HeaderValues
    <3>2. Len(refs) \in Nat /\ DOMAIN refs = 1 .. Len(refs)
      OBVIOUS
    <3>3. ids \in [1 .. Len(refs) -> HeaderValues]
      BY <3>1, <3>2
    <3> HIDE DEF ids
    <3> QED BY <3>2, <3>3
  <2>2. h \in WireHeader(Names, HeaderValues) /\ h.name = "References" /\ h.values = ids
    BY <2>1 DEF WireHeader, Names
  <2>3. /\ DOMAIN ids = DOMAIN refs
        /\ \A i \in DOMAIN refs : ids[i].id = refs[i].id
    BY WrappedId
  <2> HIDE DEF h, ids
  <2>4. <<h>> \in WireList(Names, HeaderValues) /\ KeysIn(<<h>>, {Key("References")})
    BY <2>2 DEF WireList, KeysIn
  <2>5. Values(<<h>>, "References") = ids
    <3>1. h \in WireHeader(Names, HeaderValues)
      BY <2>2
    <3>2. Values(<<h>>, "References") = IF Key(h.name) = Key("References") THEN h.values ELSE <<>>
      BY <3>1, ValuesOne
    <3> QED BY <2>2, <3>2
  <2>6. IdsOf(<<h>>, "References") = [i \in DOMAIN refs |-> refs[i].id]
    BY <2>3, <2>5 DEF IdsOf
  <2> QED BY <1>2, <2>4, <2>6 DEF RefHeaders, h, ids
<1> QED BY <1>1, <1>2

(* The identifiers of e as a list of headers.                               *)
Threads(list, e) ==
  /\ list \in WireList(Names, HeaderValues) /\ KeysIn(list, Reserved)
  /\ e.message_id # None => IdsOf(list, "Message-ID") = <<e.message_id.id>>
  /\ e.in_reply_to # None => IdsOf(list, "In-Reply-To") = <<e.in_reply_to.id>>
  /\ IdsOf(list, "References") = [i \in DOMAIN e.references |-> e.references[i].id]

LEMMA ThreadParts ==
  ASSUME NEW e, NEW a, NEW b, NEW c, IdHeader("Message-ID", e.message_id, a),
         IdHeader("In-Reply-To", e.in_reply_to, b), RefHeaders(e.references, c)
  PROVE  Threads((a \o b) \o c, e)
<1> DEFINE N == Names
           V == HeaderValues
           A == {Key("Message-ID")}
           B == {Key("In-Reply-To")}
           C == {Key("References")}
<1>1. /\ a \in WireList(N, V) /\ b \in WireList(N, V) /\ c \in WireList(N, V)
      /\ KeysIn(a, A) /\ KeysIn(b, B) /\ KeysIn(c, C)
  BY DEF IdHeader, RefHeaders
<1>2. /\ Key("Message-ID") \in A /\ Key("In-Reply-To") \in B /\ Key("References") \in C
      /\ A \cap B = {} /\ (A \cup B) \cap C = {}
      /\ A \subseteq Reserved /\ B \subseteq Reserved /\ C \subseteq Reserved
  BY HeaderNames
<1> HIDE DEF N, V, A, B, C
<1>3. a \o b \in WireList(N, V) /\ KeysIn(a \o b, A \cup B)
  <2>1. KeysIn(a, A \cup B) /\ KeysIn(b, A \cup B)
    BY <1>1 DEF KeysIn
  <2> QED BY <1>1, <2>1, KeysConcat
<1>4. (a \o b) \o c \in WireList(N, V) /\ KeysIn((a \o b) \o c, Reserved)
  <2>1. KeysIn(a \o b, Reserved) /\ KeysIn(c, Reserved)
    BY <1>1, <1>2, <1>3 DEF KeysIn
  <2> QED BY <1>1, <1>3, <2>1, KeysConcat
<1>5. /\ Values(a \o b, "Message-ID") = Values(a, "Message-ID")
      /\ Values(a \o b, "In-Reply-To") = Values(b, "In-Reply-To")
  BY <1>1, <1>2, ValuesApart
<1>6. /\ Values((a \o b) \o c, "Message-ID") = Values(a \o b, "Message-ID")
      /\ Values((a \o b) \o c, "In-Reply-To") = Values(a \o b, "In-Reply-To")
      /\ Values((a \o b) \o c, "References") = Values(c, "References")
  <2> DEFINE ab == a \o b
             AB == A \cup B
  <2>1. ab \in WireList(N, V) /\ KeysIn(ab, AB) /\ c \in WireList(N, V) /\ KeysIn(c, C)
    BY <1>1, <1>3
  <2>2. AB \cap C = {} /\ Key("Message-ID") \in AB /\ Key("In-Reply-To") \in AB /\ Key("References") \in C
    BY <1>2
  <2> HIDE DEF ab, AB
  <2>3. /\ Values(ab \o c, "Message-ID") = Values(ab, "Message-ID")
        /\ Values(ab \o c, "In-Reply-To") = Values(ab, "In-Reply-To")
        /\ Values(ab \o c, "References") = Values(c, "References")
    BY <2>1, <2>2, ValuesApart
  <2> QED BY <2>3 DEF ab
<1>7. /\ IdsOf((a \o b) \o c, "Message-ID") = IdsOf(a, "Message-ID")
      /\ IdsOf((a \o b) \o c, "In-Reply-To") = IdsOf(b, "In-Reply-To")
      /\ IdsOf((a \o b) \o c, "References") = IdsOf(c, "References")
  BY <1>5, <1>6 DEF IdsOf
<1> QED BY <1>4, <1>7 DEF Threads, IdHeader, RefHeaders, N, V

(* The HTTP transports' threading headers, and those of to_lettre. *)
LettreThreading(e) ==
  ((IF e.message_id = None THEN <<>> ELSE << Header("Message-ID", AngleWrapped(e.message_id)) >>)
   \o (IF e.in_reply_to = None THEN <<>> ELSE << Header("In-Reply-To", e.in_reply_to) >>))
  \o [i \in DOMAIN e.references |-> Header("References", e.references[i])]

LEMMA EveryThread ==
  ASSUME NEW e, Filled(e)
  PROVE  Threads(Threading(e), e) /\ Threads(LettreThreading(e), e)
<1>1. /\ e.message_id \in IdSet \cup {None} /\ e.in_reply_to \in IdSet \cup {None}
      /\ e.references \in Seq(IdSet)
  BY DEF Filled
<1>2. "Message-ID" \in Names /\ "In-Reply-To" \in Names
  BY DEF Names
<1>3. IdHeader("Message-ID", e.message_id,
        IF e.message_id = None THEN <<>> ELSE << Header("Message-ID", AngleWrapped(e.message_id)) >>)
  BY <1>1, <1>2, IdHeaderIs
<1>4. IdHeader("In-Reply-To", e.in_reply_to,
        IF e.in_reply_to = None THEN <<>> ELSE << Header("In-Reply-To", AngleWrapped(e.in_reply_to)) >>)
  BY <1>1, <1>2, IdHeaderIs
<1>5. IdHeader("In-Reply-To", e.in_reply_to,
        IF e.in_reply_to = None THEN <<>> ELSE << Header("In-Reply-To", e.in_reply_to) >>)
  BY <1>1, <1>2, IdHeaderIs
<1>6. Threads(Threading(e), e)
  BY <1>1, <1>3, <1>4, RefsJoined, ThreadParts DEF Threading
<1>7. Threads(LettreThreading(e), e)
  BY <1>1, <1>3, <1>5, RefsEach, ThreadParts DEF LettreThreading
<1> QED BY <1>6, <1>7

-----------------------------------------------------------------------------
(* What the transports make of a valid email. *)

CustomHeaders(list) == [i \in DOMAIN list |-> Header(list[i].name, list[i].value)]

(* The keys of the headers that a caller, or a priority, may set.           *)
OtherKeys == {Key(n) : n \in Names} \ Reserved

LEMMA CustomType ==
  ASSUME NEW list \in Seq(Headers), \A i \in 1 .. Len(list) : HeaderOk(list[i])
  PROVE  /\ CustomHeaders(list) \in WireList(Names, HeaderValues)
         /\ KeysIn(CustomHeaders(list), OtherKeys)
         /\ Len(CustomHeaders(list)) = Len(list)
         /\ \A i \in 1 .. Len(list) : CustomHeaders(list)[i].name = list[i].name
<1> DEFINE k == Len(list)
           H == WireHeader(Names, HeaderValues)
           c == CustomHeaders(list)
<1>1. k \in Nat /\ DOMAIN list = 1 .. k /\ \A i \in 1 .. k : list[i] \in Headers
  OBVIOUS
<1>2. \A h \in Headers : h.name \in Names /\ h.value \in HeaderValues
  BY DEF Names, HeaderValues
<1>3. ASSUME NEW n \in Names, NEW v \in HeaderValues
      PROVE  Header(n, v) \in H /\ Header(n, v).name = n
  BY <1>3 DEF Header, WireHeader
<1>4. \A i \in 1 .. k : Key(list[i].name) \in OtherKeys
  BY <1>1, <1>2 DEF OtherKeys, HeaderOk
<1>5. c = [i \in 1 .. k |-> Header(list[i].name, list[i].value)]
  BY <1>1 DEF CustomHeaders
<1>6. \A i \in 1 .. k : c[i] = Header(list[i].name, list[i].value)
  BY <1>5
<1> HIDE DEF c, H
<1>7. \A i \in 1 .. k : c[i] \in H /\ c[i].name = list[i].name
  BY <1>1, <1>2, <1>3, <1>6
<1>8. c \in [1 .. k -> H]
  BY <1>5, <1>7
<1>9. c \in Seq(H) /\ Len(c) = k
  BY <1>1, <1>8
<1>10. c \in WireList(Names, HeaderValues)
  BY <1>9 DEF WireList, H
<1>11. KeysIn(c, OtherKeys)
  BY <1>4, <1>7, <1>9 DEF KeysIn
<1> QED BY <1>7, <1>9, <1>10, <1>11 DEF c

LEMMA PriorityType ==
  ASSUME NEW e, e.priority \in {None} \cup 1 .. 5
  PROVE  /\ PriorityHeaders(e) \in WireList(Names, HeaderValues)
         /\ KeysIn(PriorityHeaders(e), OtherKeys)
<1>1. CASE e.priority = None
  BY <1>1 DEF PriorityHeaders, WireList, KeysIn
<1>2. CASE e.priority # None
  <2> DEFINE p     == e.priority
             level == <<"High", "High", "Normal", "Low", "Low">>[p]
             H     == WireHeader(Names, HeaderValues)
             a     == Header("X-Priority", <<p, level>>)
             b     == Header("X-MSMail-Priority", level)
             c     == Header("Importance", level)
  <2>1. p \in 1 .. 5
    BY <1>2
  <2>2. level \in Levels3
    BY <2>1 DEF Levels3
  <2>3. PriorityHeaders(e) = <<a, b, c>>
    BY <1>2 DEF PriorityHeaders
  <2> HIDE DEF level, p
  <2>4. <<p, level>> \in HeaderValues /\ level \in HeaderValues
    BY <2>1, <2>2 DEF HeaderValues
  <2>5. /\ a \in H /\ a.name = "X-Priority" /\ b \in H /\ b.name = "X-MSMail-Priority"
        /\ c \in H /\ c.name = "Importance"
    BY <2>4 DEF Header, WireHeader, Names
  <2>6. /\ Key("X-Priority") \in OtherKeys /\ Key("X-MSMail-Priority") \in OtherKeys
        /\ Key("Importance") \in OtherKeys
    BY HeaderNames DEF OtherKeys, Names
  <2> HIDE DEF a, b, c, H
  <2>7. <<a, b, c>> \in Seq(H) /\ Len(<<a, b, c>>) = 3
    BY <2>5
  <2>8. \A i \in 1 .. 3 : Key(<<a, b, c>>[i].name) \in OtherKeys
    BY <2>5, <2>6
  <2> QED BY <2>3, <2>7, <2>8 DEF WireList, KeysIn, H
<1> QED BY <1>1, <1>2

LEMMA WireHeadersAre ==
  ASSUME NEW e, Filled(e), Valid(e)
  PROVE  /\ WireHeaders(e) = CustomHeaders(e.headers) \o PriorityHeaders(e)
         /\ WireHeaders(e) \in WireList(Names, HeaderValues)
         /\ KeysIn(WireHeaders(e), OtherKeys)
<1> DEFINE list == e.headers
           S    == {h \in Range(list) : HeaderOk(h)}
<1>1. list \in Seq(Headers) /\ e.priority \in {None} \cup 1 .. 5
  BY DEF Filled
<1>2. \A i \in 1 .. Len(list) : HeaderOk(list[i])
  BY <1>1 DEF Valid
<1>3. \A i \in 1 .. Len(list) : list[i] \in S
  BY <1>1, <1>2 DEF Range
<1>4. Only(list, S) = list
  <2> HIDE DEF list, S
  <2> QED BY <1>1, <1>3, OnlyAll
<1>5. WireHeaders(e) = CustomHeaders(list) \o PriorityHeaders(e)
  BY <1>4 DEF WireHeaders, CustomHeaders
<1>6. /\ CustomHeaders(list) \in WireList(Names, HeaderValues)
      /\ KeysIn(CustomHeaders(list), OtherKeys)
  <2> HIDE DEF list
  <2> QED BY <1>1, <1>2, CustomType
<1>7. /\ PriorityHeaders(e) \in WireList(Names, HeaderValues)
      /\ KeysIn(PriorityHeaders(e), OtherKeys)
  BY <1>1, PriorityType
<1> DEFINE c == CustomHeaders(list)
           p == PriorityHeaders(e)
<1>8. c \o p \in WireList(Names, HeaderValues) /\ KeysIn(c \o p, OtherKeys)
  <2> DEFINE N == Names
             V == HeaderValues
             K == OtherKeys
  <2>1. c \in WireList(N, V) /\ p \in WireList(N, V) /\ KeysIn(c, K) /\ KeysIn(p, K)
    BY <1>6, <1>7
  <2> HIDE DEF c, p, N, V, K
  <2>2. c \o p \in WireList(N, V) /\ KeysIn(c \o p, K)
    BY <2>1, KeysConcat
  <2> QED BY <2>2 DEF N, V, K
<1> QED BY <1>5, <1>8

LEMMA PlainConcat ==
  ASSUME NEW N, NEW V, NEW s \in WireList(N, V), NEW t \in WireList(N, V), Plain(s), Plain(t)
  PROVE  Plain(s \o t)
<1> DEFINE H == WireHeader(N, V)
<1>1. s \in Seq(H) /\ t \in Seq(H)
  BY DEF WireList
<1> HIDE DEF H
<1>2. /\ Len(s \o t) = Len(s) + Len(t) /\ Len(s) \in Nat /\ Len(t) \in Nat
      /\ \A i \in 1 .. Len(s) + Len(t) : (s \o t)[i] = IF i <= Len(s) THEN s[i] ELSE t[i - Len(s)]
  BY <1>1
<1>3. \A i \in 1 .. Len(s) + Len(t) : i \in 1 .. Len(s) \/ (~(i <= Len(s)) /\ i - Len(s) \in 1 .. Len(t))
  BY <1>2
<1>4. \A i \in 1 .. Len(s) : i <= Len(s)
  BY <1>2
<1> QED BY <1>2, <1>3, <1>4 DEF Plain

LEMMA PlainHeader ==
  ASSUME NEW n, NEW v
  PROVE  Len(Header(n, v).values) = 1 /\ Plain(<<Header(n, v)>>)
<1> DEFINE h == Header(n, v)
<1>1. Len(h.values) = 1
  BY DEF Header
<1> HIDE DEF h
<1>2. Plain(<<h>>)
  BY <1>1 DEF Plain
<1> QED BY <1>1, <1>2 DEF h

LEMMA PlainWireHeaders ==
  ASSUME NEW e, Filled(e), Valid(e)
  PROVE  Plain(WireHeaders(e))
<1> DEFINE c == CustomHeaders(e.headers)
           p == PriorityHeaders(e)
           list == e.headers
<1>1. list \in Seq(Headers) /\ e.priority \in {None} \cup 1 .. 5
  BY DEF Filled
<1>2. \A i \in 1 .. Len(list) : HeaderOk(list[i])
  BY <1>1 DEF Valid
<1>3. c \in WireList(Names, HeaderValues) /\ p \in WireList(Names, HeaderValues)
  BY <1>1, <1>2, CustomType, PriorityType
<1>4. Plain(c)
  <2>1. Len(c) = Len(list) /\ DOMAIN list = 1 .. Len(list)
    BY <1>1, <1>2, CustomType
  <2>2. \A i \in 1 .. Len(list) : c[i] = Header(list[i].name, list[i].value)
    BY <2>1 DEF CustomHeaders
  <2>3. \A n, v : Len(Header(n, v).values) = 1
    BY PlainHeader
  <2> HIDE DEF c, list
  <2> QED BY <2>1, <2>2, <2>3 DEF Plain
<1>5. Plain(p)
  <2>1. CASE e.priority = None
    BY <2>1 DEF PriorityHeaders, Plain
  <2>2. CASE e.priority # None
    <3>1. PICK l : p = << Header("X-Priority", <<e.priority, l>>), Header("X-MSMail-Priority", l),
                          Header("Importance", l) >>
      BY <2>2 DEF PriorityHeaders
    <3> DEFINE a == Header("X-Priority", <<e.priority, l>>)
               b == Header("X-MSMail-Priority", l)
               d == Header("Importance", l)
    <3>2. Len(a.values) = 1 /\ Len(b.values) = 1 /\ Len(d.values) = 1
      BY PlainHeader
    <3>3. p = <<a, b, d>>
      BY <3>1
    <3> HIDE DEF a, b, d, p
    <3>4. \A i \in 1 .. 3 : Len(<<a, b, d>>[i].values) = 1
      BY <3>2
    <3> QED BY <3>3, <3>4 DEF Plain
  <2> QED BY <2>1, <2>2
<1>6. WireHeaders(e) = c \o p
  BY WireHeadersAre
<1> HIDE DEF c, p
<1> QED BY <1>3, <1>4, <1>5, <1>6, PlainConcat

LEMMA PlainThreading ==
  ASSUME NEW e, Filled(e)
  PROVE  Plain(LettreThreading(e))
<1> DEFINE a == IF e.message_id = None THEN <<>>
                ELSE << Header("Message-ID", AngleWrapped(e.message_id)) >>
           b == IF e.in_reply_to = None THEN <<>> ELSE << Header("In-Reply-To", e.in_reply_to) >>
           c == [i \in DOMAIN e.references |-> Header("References", e.references[i])]
<1>1. /\ e.message_id \in IdSet \cup {None} /\ e.in_reply_to \in IdSet \cup {None}
      /\ e.references \in Seq(IdSet)
  BY DEF Filled
<1>2. "Message-ID" \in Names /\ "In-Reply-To" \in Names
  BY DEF Names
<1>3. IdHeader("Message-ID", e.message_id, a) /\ IdHeader("In-Reply-To", e.in_reply_to, b)
  BY <1>1, <1>2, IdHeaderIs
<1>4. RefHeaders(e.references, c)
  BY <1>1, RefsEach
<1>5. Plain(<<>>)
  BY DEF Plain
<1>6. Plain(a) /\ Plain(b)
  BY <1>5, PlainHeader
<1>7. Plain(c)
  <2>1. Len(c) = Len(e.references) /\ \A i \in 1 .. Len(c) : c[i] = Header("References", e.references[i])
    BY <1>1
  <2>2. \A v : Len(Header("References", v).values) = 1
    BY PlainHeader
  <2> HIDE DEF c
  <2> QED BY <2>1, <2>2 DEF Plain
<1>8. LettreThreading(e) = (a \o b) \o c
  BY DEF LettreThreading
<1> DEFINE N == Names
           V == HeaderValues
<1>9. a \in WireList(N, V) /\ b \in WireList(N, V) /\ c \in WireList(N, V)
  BY <1>3, <1>4 DEF IdHeader, RefHeaders
<1> HIDE DEF a, b, c, N, V
<1>10. Plain(a \o b)
  BY <1>6, <1>9, PlainConcat
<1>11. a \o b \in WireList(N, V)
  <2>1. a \in Seq(WireHeader(N, V)) /\ b \in Seq(WireHeader(N, V))
    BY <1>9 DEF WireList
  <2> QED BY <2>1 DEF WireList
<1> DEFINE ab == a \o b
<1>12. ab \in WireList(N, V) /\ Plain(ab)
  BY <1>10, <1>11
<1> HIDE DEF ab
<1>13. Plain(ab \o c)
  BY <1>7, <1>9, <1>12, PlainConcat
<1> QED BY <1>8, <1>13 DEF ab

(* A list has the headers of e and its identifiers.                         *)
CarriesHeaders(list, e) ==
  /\ \A n : Key(n) \in OtherKeys => Values(list, n) = Values(WireHeaders(e), n)
  /\ e.message_id # None => IdsOf(list, "Message-ID") = <<e.message_id.id>>
  /\ e.in_reply_to # None => IdsOf(list, "In-Reply-To") = <<e.in_reply_to.id>>
  /\ IdsOf(list, "References") = [i \in DOMAIN e.references |-> e.references[i].id]

LEMMA SidesCarry ==
  ASSUME NEW e, Filled(e), Valid(e), NEW t, Threads(t, e)
  PROVE  /\ CarriesHeaders(WireHeaders(e) \o t, e) /\ CarriesHeaders(t \o WireHeaders(e), e)
         /\ WireHeaders(e) \o t \in WireList(Names, HeaderValues)
         /\ t \o WireHeaders(e) \in WireList(Names, HeaderValues)
<1> DEFINE w == WireHeaders(e)
           N == Names
           V == HeaderValues
           K == Reserved
           L == OtherKeys
<1>1. w \in WireList(N, V) /\ KeysIn(w, L) /\ t \in WireList(N, V) /\ KeysIn(t, K)
  BY WireHeadersAre DEF Threads
<1>2. K \cap L = {}
  BY DEF OtherKeys
<1>3. Key("Message-ID") \in K /\ Key("In-Reply-To") \in K /\ Key("References") \in K
  BY HeaderNames
<1> HIDE DEF w, N, V, K, L
<1>4. ASSUME NEW n
      PROVE  /\ Key(n) \in K => Values(t \o w, n) = Values(t, n) /\ Values(w \o t, n) = Values(t, n)
             /\ Key(n) \in L => Values(t \o w, n) = Values(w, n) /\ Values(w \o t, n) = Values(w, n)
  BY <1>1, <1>2, ValuesApart
<1>5. ASSUME NEW n, Key(n) \in K
      PROVE  IdsOf(t \o w, n) = IdsOf(t, n) /\ IdsOf(w \o t, n) = IdsOf(t, n)
  BY <1>4, <1>5 DEF IdsOf
<1>6. /\ e.message_id # None => IdsOf(t, "Message-ID") = <<e.message_id.id>>
      /\ e.in_reply_to # None => IdsOf(t, "In-Reply-To") = <<e.in_reply_to.id>>
      /\ IdsOf(t, "References") = [i \in DOMAIN e.references |-> e.references[i].id]
  BY DEF Threads
<1>7. CarriesHeaders(w \o t, e)
  BY <1>3, <1>4, <1>5, <1>6 DEF CarriesHeaders, L, w
<1>8. CarriesHeaders(t \o w, e)
  BY <1>3, <1>4, <1>5, <1>6 DEF CarriesHeaders, L, w
<1>9. w \o t \in WireList(N, V) /\ t \o w \in WireList(N, V)
  <2>1. w \in Seq(WireHeader(N, V)) /\ t \in Seq(WireHeader(N, V))
    BY <1>1 DEF WireList
  <2> QED BY <2>1 DEF WireList
<1> QED BY <1>7, <1>8, <1>9 DEF w, N, V

LEMMA CombinedCarries ==
  ASSUME NEW e, NEW list \in WireList(Names, HeaderValues), CarriesHeaders(list, e)
  PROVE  /\ CarriesHeaders(Combined(list), e) /\ Unique(Combined(list))
         /\ DOMAIN Combined(list) = 1 .. Len(Combined(list))
<1>1. Unique(Combined(list)) /\ \A n : Values(Combined(list), n) = Values(list, n)
  BY CombinedKeeps
<1>3. DOMAIN Combined(list) = 1 .. Len(Combined(list))
  <2>1. Combined(list) \in WireList(Names, HeaderValues)
    BY CombinedKeeps
  <2>2. Combined(list) \in Seq(WireHeader(Names, HeaderValues))
    BY <2>1 DEF WireList
  <2> QED BY <2>2
<1>2. \A n : IdsOf(Combined(list), n) = IdsOf(list, n)
  BY <1>1 DEF IdsOf
<1> QED BY <1>1, <1>2, <1>3 DEF CarriesHeaders

RefIds(e) == [i \in DOMAIN e.references |-> e.references[i].id]

(* A list has what of the headers of e and its identifiers t sends.         *)
Reaches(t, list, e) ==
  /\ \A n : Key(n) \in OtherKeys => Values(list, n) = Surviving(t, Values(WireHeaders(e), n))
  /\ e.message_id # None => IdsOf(list, "Message-ID") = <<e.message_id.id>>
  /\ e.in_reply_to # None => IdsOf(list, "In-Reply-To") = <<e.in_reply_to.id>>
  /\ IdsOf(list, "References") = Surviving(t, RefIds(e))

LEMMA AllReach ==
  ASSUME NEW t \in {"sendgrid", "mailgun"}, NEW list, NEW e, CarriesHeaders(list, e)
  PROVE  Reaches(t, list, e)
BY DEF CarriesHeaders, Reaches, Surviving, RefIds

LEMMA LastIds ==
  ASSUME NEW V, NEW x, NEW y, NEW n, Values(y, n) \in Seq(V), Values(x, n) = LastOf(Values(y, n))
  PROVE  IdsOf(x, n) = LastOf(IdsOf(y, n))
<1> DEFINE v == Values(y, n)
           ids == [i \in DOMAIN v |-> v[i].id]
<1>1. v \in Seq(V) /\ IdsOf(y, n) = ids /\ Values(x, n) = LastOf(v)
  BY DEF IdsOf
<1> HIDE DEF v
<1>2. CASE v = <<>>
  <2>1. ids = <<>> /\ LastOf(v) = <<>>
    BY <1>2 DEF LastOf
  <2>2. IdsOf(x, n) = <<>>
    BY <1>1, <2>1 DEF IdsOf
  <2> QED BY <1>1, <2>1, <2>2 DEF LastOf
<1>3. CASE v # <<>>
  <2> DEFINE u == v[Len(v)]
  <2>1. LastOf(v) = <<u>>
    BY <1>3 DEF LastOf
  <2>2. Len(v) \in 1 .. Len(v) /\ DOMAIN v = 1 .. Len(v)
    BY <1>1, <1>3
  <2>3. DOMAIN ids = 1 .. Len(v) /\ ids[Len(v)] = u.id /\ Len(ids) = Len(v) /\ ids # <<>>
    BY <2>2
  <2> HIDE DEF ids, u
  <2>4. LastOf(ids) = <<u.id>>
    BY <2>3 DEF LastOf
  <2>5. IdsOf(x, n) = <<u.id>>
    BY <1>1, <2>1 DEF IdsOf
  <2> QED BY <1>1, <2>4, <2>5
<1> QED BY <1>2, <1>3

(* lettre's map of the headers that to_lettre sets.                         *)
LEMMA InsertedReach ==
  ASSUME NEW t \in {"smtp", "ses"}, NEW e, Filled(e), Valid(e)
  PROVE  LET list == Inserted(HeaderCalls(e))
         IN  Reaches(t, list, e) /\ Unique(list) /\ DOMAIN list = 1 .. Len(list)
<1> DEFINE made == HeaderCalls(e)
           list   == Inserted(made)
           N == Names
           V == HeaderValues
<1>1. made = LettreThreading(e) \o WireHeaders(e)
  BY DEF HeaderCalls, LettreThreading
<1>2. CarriesHeaders(made, e) /\ made \in WireList(N, V)
  BY <1>1, EveryThread, SidesCarry
<1>3. Plain(made)
  <2> DEFINE a == LettreThreading(e)
             b == WireHeaders(e)
  <2>1. a \in WireList(N, V) /\ b \in WireList(N, V) /\ Plain(a) /\ Plain(b)
    BY EveryThread, WireHeadersAre, PlainThreading, PlainWireHeaders DEF Threads
  <2> HIDE DEF a, b, N, V
  <2>2. Plain(a \o b)
    BY <2>1, PlainConcat
  <2> QED BY <1>1, <2>2 DEF a, b
<1> HIDE DEF made, N, V
<1>4. /\ list \in WireList(N, V) /\ Unique(list)
      /\ \A n : Values(list, n) = LastOf(Values(made, n))
  BY <1>2, <1>3, InsertedKeeps
<1> HIDE DEF list
<1>5. DOMAIN list = 1 .. Len(list)
  BY <1>4 DEF WireList
<1>6. \A n : Values(made, n) \in Seq(V)
  BY <1>2, ValuesType
<1>7. \A n : IdsOf(list, n) = LastOf(IdsOf(made, n))
  BY <1>4, <1>6, LastIds
<1>8. \A v : Surviving(t, v) = LastOf(v)
  BY DEF Surviving, LastOf
<1>9. \A v : LastOf(<<v>>) = <<v>>
  BY DEF LastOf
<1>10. Reaches(t, list, e)
  BY <1>2, <1>4, <1>7, <1>8, <1>9 DEF Reaches, CarriesHeaders, RefIds
<1> QED BY <1>4, <1>5, <1>10 DEF list, made

LEMMA FileCountMapped ==
  ASSUME NEW list, NEW parts, DOMAIN parts = DOMAIN list, NEW f,
         \A i \in DOMAIN list : parts[i].file = list[i].file
  PROVE  FileCount(parts, f) = FileCount(list, f)
<1>1. {i \in DOMAIN parts : parts[i].file = f} = {i \in DOMAIN list : list[i].file = f}
  OBVIOUS
<1> QED BY <1>1 DEF FileCount

(* w carries what of e's headers and identifiers t sends, its subject, its   *)
(* bodies and its attachments; only Mailgun's form repeats a name.         *)
Carries(t, w, e) ==
  /\ Reaches(t, w.headers, e)
  /\ t # "mailgun" => Unique(w.headers) /\ DOMAIN w.headers = 1 .. Len(w.headers)
  /\ w.subject = WireSubject(e.subject)
  /\ (w.text = "given") = e.text /\ (w.html = "given") = e.html
  /\ \A f : FileCount(w.parts, f) = FileCount(e.attachments, f)

LEMMA ContentGiven ==
  ASSUME NEW given \in BOOLEAN
  PROVE  /\ (Content(given, "none") = "given") = given
         /\ (Content(given, "empty") = "given") = given
BY DEF Content

LEMMA LettreCarries ==
  ASSUME NEW t \in {"smtp", "ses"}, NEW e, Filled(e), ToLettre(e) # None
  PROVE  Carries(t, ToLettre(e), e)
<1> DEFINE list    == e.attachments
           related == {a \in Range(list) : Embedded(a)}
           rest    == Range(list) \ related
           parts   == Only(list, related) \o Only(list, rest)
           w       == ToLettre(e)
<1>1. /\ Valid(e)
      /\ w = [Envelope(e) EXCEPT
                !.text = Content(e.text, "empty"), !.html = Content(e.html, "empty"),
                !.headers = Inserted(HeaderCalls(e)),
                !.parts = [i \in DOMAIN parts |-> Part(parts[i])]]
  BY DEF ToLettre
<1>2. /\ w.headers = Inserted(HeaderCalls(e))
      /\ w.subject = WireSubject(e.subject)
      /\ w.text = Content(e.text, "empty") /\ w.html = Content(e.html, "empty")
      /\ w.parts = [i \in DOMAIN parts |-> Part(parts[i])]
  <2> HIDE DEF w, parts
  <2> QED BY <1>1 DEF Envelope
<1> HIDE DEF w
<1>3. /\ Reaches(t, w.headers, e) /\ Unique(w.headers)
      /\ DOMAIN w.headers = 1 .. Len(w.headers)
  BY <1>1, <1>2, InsertedReach
<1>4. (w.text = "given") = e.text /\ (w.html = "given") = e.html
  BY <1>2, ContentGiven DEF Filled
<1>5. ASSUME NEW f PROVE FileCount(w.parts, f) = FileCount(list, f)
  <2>1. list \in Seq(Attachments)
    BY DEF Filled
  <2>2. \A i \in 1 .. Len(list) : list[i] \in related <=> list[i] \notin rest
    BY <2>1 DEF Range
  <2>3. FileCount(parts, f) = FileCount(list, f)
    <3> DEFINE A == Attachments
    <3>1. list \in Seq(A)
      BY <2>1
    <3> HIDE DEF A, related, rest, list
    <3> QED BY <2>2, <3>1, FileCountApart
  <2>4. DOMAIN w.parts = DOMAIN parts /\ \A i \in DOMAIN parts : w.parts[i].file = parts[i].file
    <3>1. \A a : Part(a).file = a.file
      BY DEF Part
    <3> HIDE DEF parts
    <3> QED BY <1>2, <3>1
  <2>5. FileCount(w.parts, f) = FileCount(parts, f)
    <3> DEFINE p == w.parts
    <3> HIDE DEF p, parts
    <3> QED BY <2>4, FileCountMapped DEF p
  <2> QED BY <2>3, <2>5
<1> QED BY <1>2, <1>3, <1>4, <1>5 DEF Carries, w

(* The two HTTP transports, which give the attachments in their order.      *)
LEMMA PartsInOrder ==
  ASSUME NEW t, NEW e, NEW w, w.subject = WireSubject(e.subject), Filled(e),
         w.text = Content(e.text, "none"), w.html = Content(e.html, "none"),
         Reaches(t, w.headers, e),
         t # "mailgun" => Unique(w.headers) /\ DOMAIN w.headers = 1 .. Len(w.headers),
         DOMAIN w.parts = DOMAIN e.attachments,
         \A i \in DOMAIN e.attachments : w.parts[i].file = e.attachments[i].file
  PROVE  Carries(t, w, e)
<1>1. (w.text = "given") = e.text /\ (w.html = "given") = e.html
  BY ContentGiven DEF Filled
<1>2. \A f : FileCount(w.parts, f) = FileCount(e.attachments, f)
  <2> DEFINE p == w.parts
             list == e.attachments
  <2>1. DOMAIN p = DOMAIN list /\ \A i \in DOMAIN list : p[i].file = list[i].file
    OBVIOUS
  <2> HIDE DEF p, list
  <2>2. \A f : FileCount(p, f) = FileCount(list, f)
    BY <2>1, FileCountMapped
  <2> QED BY <2>2 DEF p, list
<1> QED BY <1>1, <1>2 DEF Carries

LEMMA SesCarries ==
  ASSUME NEW e, Filled(e), Ses(e) # None
  PROVE  Carries("ses", Ses(e), e)
<1>1. CASE NeedsRawMime(e)
  BY <1>1, LettreCarries DEF Ses
<1>2. CASE ~NeedsRawMime(e)
  <2>1. /\ e.attachments = <<>> /\ WireHeaders(e) = <<>> /\ e.references = <<>>
        /\ e.message_id = None /\ e.in_reply_to = None
    BY <1>2 DEF NeedsRawMime
  <2>2. Ses(e) = Envelope(e)
    BY <1>2 DEF Ses
  <2> DEFINE w == Envelope(e)
  <2>3. /\ w.headers = <<>> /\ w.parts = <<>> /\ w.subject = WireSubject(e.subject)
        /\ w.text = Content(e.text, "none") /\ w.html = Content(e.html, "none")
    BY DEF Envelope
  <2> HIDE DEF w
  <2>4. IdsOf(<<>>, "References") = <<>> /\ RefIds(e) = <<>> /\ \A n : Values(<<>>, n) = <<>>
    <3>1. \A n : Values(<<>>, n) = <<>>
      BY ValuesEmpty
    <3> QED BY <2>1, <3>1 DEF IdsOf, RefIds
  <2>5. Reaches("ses", w.headers, e)
    BY <2>1, <2>3, <2>4 DEF Reaches, Surviving
  <2>6. Unique(w.headers) /\ DOMAIN w.headers = 1 .. Len(w.headers)
    BY <2>3 DEF Unique
  <2>7. Carries("ses", w, e)
    BY <2>1, <2>3, <2>5, <2>6, PartsInOrder
  <2> QED BY <2>2, <2>7 DEF w
<1> QED BY <1>1, <1>2

LEMMA SendGridCarries ==
  ASSUME NEW e, Filled(e), SendGrid(e) # None
  PROVE  Carries("sendgrid", SendGrid(e), e)
<1> DEFINE w == SendGrid(e)
           all == WireHeaders(e) \o Threading(e)
           parts == [i \in DOMAIN e.attachments |-> Part(e.attachments[i])]
<1>1. Valid(e) /\ w = [Envelope(e) EXCEPT !.headers = Combined(all), !.parts = parts]
  BY DEF SendGrid, BuildHeaders
<1>2. CarriesHeaders(all, e) /\ all \in WireList(Names, HeaderValues)
  BY <1>1, EveryThread, SidesCarry
<1>3. /\ CarriesHeaders(Combined(all), e) /\ Unique(Combined(all))
      /\ DOMAIN Combined(all) = 1 .. Len(Combined(all))
  <2> HIDE DEF all
  <2> QED BY <1>2, CombinedCarries
<1> HIDE DEF w, all
<1>4. /\ w.headers = Combined(all) /\ w.parts = parts /\ w.subject = WireSubject(e.subject)
      /\ w.text = Content(e.text, "none") /\ w.html = Content(e.html, "none")
  BY <1>1 DEF Envelope
<1>5. DOMAIN w.parts = DOMAIN e.attachments
      /\ \A i \in DOMAIN e.attachments : w.parts[i].file = e.attachments[i].file
  BY <1>4 DEF Part
<1> HIDE DEF parts
<1>6. Carries("sendgrid", w, e)
  BY <1>3, <1>4, <1>5, AllReach, PartsInOrder
<1> QED BY <1>6 DEF w

LEMMA MailgunCarries ==
  ASSUME NEW e, Filled(e), Mailgun(e) # None
  PROVE  Carries("mailgun", Mailgun(e), e)
<1> DEFINE w == Mailgun(e)
           all == WireHeaders(e) \o Threading(e)
           parts == [i \in DOMAIN e.attachments |->
                       [file |-> e.attachments[i].file, inline |-> e.attachments[i].content_id,
                        related |-> e.attachments[i].content_id]]
<1>1. Valid(e) /\ w = [Envelope(e) EXCEPT !.headers = all, !.parts = parts]
  BY DEF Mailgun
<1>2. CarriesHeaders(all, e)
  BY <1>1, EveryThread, SidesCarry
<1> HIDE DEF w, all
<1>4. /\ w.headers = all /\ w.parts = parts /\ w.subject = WireSubject(e.subject)
      /\ w.text = Content(e.text, "none") /\ w.html = Content(e.html, "none")
  BY <1>1 DEF Envelope
<1>5. DOMAIN w.parts = DOMAIN e.attachments
      /\ \A i \in DOMAIN e.attachments : w.parts[i].file = e.attachments[i].file
  BY <1>4
<1> HIDE DEF parts
<1>6. Carries("mailgun", w, e)
  BY <1>2, <1>4, <1>5, AllReach, PartsInOrder
<1> QED BY <1>6 DEF w

LEMMA WireCarries ==
  ASSUME NEW e, Filled(e), NEW t \in Transports, Wire(t, e) # None
  PROVE  Carries(t, Wire(t, e), e)
<1>1. CASE t = "smtp"
  BY <1>1, LettreCarries DEF Wire
<1>2. CASE t = "ses"
  BY <1>2, SesCarries DEF Wire
<1>3. CASE t = "sendgrid"
  BY <1>3, SendGridCarries DEF Wire
<1>4. CASE t = "mailgun"
  BY <1>4, MailgunCarries DEF Wire
<1> QED BY <1>1, <1>2, <1>3, <1>4 DEF Transports

-----------------------------------------------------------------------------
(* What the builder's steps do to the rest of the email. *)

(* As long as no header was recorded as invalid, the email has just those   *)
(* the caller gave.                                                        *)
ContentInv ==
  /\ Filled(email)
  /\ email.invalid_headers = {} => email.headers = asked.headers

Untouched(e, x) ==
  \A f \in Fields \ {"from", "reply_to", "to", "cc", "bcc", "invalid_addresses"} : x[f] = e[f]

LEMMA RecipientUntouched ==
  ASSUME NEW e, e = [f \in Fields |-> e[f]],
         NEW field \in {"to", "cc", "bcc"}, NEW s
  PROVE  LET x == WithRecipient(e, field, s)
         IN  x = [f \in Fields |-> x[f]] /\ Untouched(e, x)
BY FieldsAre DEF WithRecipient, RecordInvalid, Untouched

LEMMA AddressUntouched ==
  ASSUME NEW e, e = [f \in Fields |-> e[f]],
         NEW field \in {"from", "reply_to"}, NEW s
  PROVE  Untouched(e, WithAddress(e, field, s))
BY FieldsAre DEF WithAddress, RecordInvalid, Untouched

LEMMA ManyUntouched ==
  ASSUME NEW e, e = [f \in Fields |-> e[f]], NEW list \in Seq(Inputs)
  PROVE  Untouched(e, WithMany(e, list))
<1> DEFINE after == CHOOSE f : Loop(f, e, list)
           n     == Len(list)
           S     == {i \in 0 .. n : after[i] = [f \in Fields |-> after[i][f]] /\ Untouched(e, after[i])}
<1>1. Loop(after, e, list)
  BY LoopExists
<1>2. WithMany(e, list) = after[n]
  BY DEF WithMany, Loop
<1> HIDE DEF after
<1>3. n \in Nat
  OBVIOUS
<1>4. 0 \in S
  <2>1. after[0] = e
    BY <1>1, <1>3 DEF Loop
  <2> QED BY <1>3, <2>1 DEF Untouched
<1>5. ASSUME NEW i \in 0 .. n - 1, i \in S PROVE i + 1 \in S
  <2>1. after[i + 1] = WithRecipient(after[i], "to", list[i + 1]) /\ list[i + 1] \in Inputs
    BY <1>1, <1>3 DEF Loop
  <2> DEFINE y == after[i]
             x == WithRecipient(y, "to", list[i + 1])
  <2>2. y = [f \in Fields |-> y[f]] /\ Untouched(e, y)
    BY <1>5
  <2> HIDE DEF y
  <2>3. x = [f \in Fields |-> x[f]] /\ Untouched(y, x)
    BY <2>2, RecipientUntouched
  <2>4. Untouched(e, x)
    BY <2>2, <2>3 DEF Untouched
  <2>5. after[i + 1] = x
    BY <2>1 DEF y
  <2> HIDE DEF x
  <2> QED BY <1>3, <2>3, <2>4, <2>5
<1>6. n \in S
  <2> HIDE DEF S, n
  <2> QED BY <1>3, <1>4, <1>5, EveryStep
<1> QED BY <1>2, <1>6

LEMMA UntouchedFilled ==
  ASSUME NEW e, NEW x, Filled(e), Untouched(e, x)
  PROVE  Filled(x) /\ x.headers = e.headers /\ x.invalid_headers = e.invalid_headers
<1>1. \A f \in {"text", "html", "headers", "attachments", "message_id", "in_reply_to",
                "references", "priority", "invalid_headers"} : x[f] = e[f]
  BY FieldsAre DEF Untouched
<1> QED BY <1>1 DEF Filled

(* A step that adds to the addresses only.                                  *)
LEMMA AddressStep ==
  ASSUME ContentInv, Untouched(email, email'), asked'.headers = asked.headers
  PROVE  ContentInv'
<1>1. Filled(email') /\ email'.headers = email.headers /\ email'.invalid_headers = email.invalid_headers
  <2> DEFINE x == email'
  <2>1. Filled(email) /\ Untouched(email, x)
    BY DEF ContentInv
  <2> HIDE DEF x
  <2>2. Filled(x) /\ x.headers = email.headers /\ x.invalid_headers = email.invalid_headers
    BY <2>1, UntouchedFilled
  <2> QED BY <2>2 DEF x
<1> QED BY <1>1 DEF ContentInv

(* A step that sets one of the other fields.                                *)
LEMMA FieldStep ==
  ASSUME EmailInv, ContentInv, NEW field \in Fields, NEW v, email' = [email EXCEPT ![field] = v],
         field \in {"text", "html"} => v \in BOOLEAN,
         field = "headers" => v \in Seq(Headers),
         field = "attachments" => v \in Seq(Attachments),
         field \in {"message_id", "in_reply_to"} => v \in IdSet \cup {None},
         field = "references" => v \in Seq(IdSet),
         field = "priority" => v \in {None} \cup 1 .. 5,
         email'.invalid_headers = {} => email'.headers = asked'.headers
  PROVE  ContentInv'
<1>1. email = [f \in Fields |-> email[f]]
  BY DEF EmailInv, Typed
<1>2. email'[field] = v /\ \A f \in Fields \ {field} : email'[f] = email[f]
  BY <1>1
<1>3. Filled(email)
  BY DEF ContentInv
<1>4. Filled(email')
  BY <1>2, <1>3, FieldsAre DEF Filled
<1> QED BY <1>4 DEF ContentInv

LEMMA BegunFilled ==
  ASSUME NEW s, NEW subject, NEW text \in BOOLEAN, NEW html \in BOOLEAN
  PROVE  /\ Filled(Begun(s, subject, text, html)) /\ Begun(s, subject, text, html).headers = <<>>
         /\ [NothingAsked EXCEPT !.to = <<s>>].headers = <<>>
<1> DEFINE y == WithRecipient(NewEmail, "to", s)
           x == Begun(s, subject, text, html)
<1>1. NewEmail = [f \in Fields |-> NewEmail[f]]
  BY DEF Fields, NewEmail
<1>2. y = [f \in Fields |-> y[f]] /\ Untouched(NewEmail, y)
  BY <1>1, RecipientUntouched
<1>3. x = [y EXCEPT !.subject = subject, !.text = text, !.html = html]
  BY DEF Begun
<1> HIDE DEF y, x
<1>4. /\ x.text = text /\ x.html = html
      /\ \A f \in {"headers", "attachments", "message_id", "in_reply_to", "references", "priority"} :
           x[f] = NewEmail[f]
  BY <1>2, <1>3, FieldsAre DEF Untouched
<1>5. /\ NewEmail.headers = <<>> /\ NewEmail.attachments = <<>> /\ NewEmail.references = <<>>
      /\ NewEmail.message_id = None /\ NewEmail.in_reply_to = None /\ NewEmail.priority = None
  BY DEF NewEmail
<1>6. Filled(x) /\ x.headers = <<>>
  <2>1. \A A : <<>> \in Seq(A)
    OBVIOUS
  <2> QED BY <1>4, <1>5, <2>1 DEF Filled
<1>7. [NothingAsked EXCEPT !.to = <<s>>].headers = <<>>
  BY DEF NothingAsked
<1> QED BY <1>6, <1>7 DEF x

LEMMA ContentInit ==
  ASSUME Init
  PROVE  ContentInv
<1>1. PICK v : email \in {NewEmail, [NewEmail EXCEPT !.subject = v, !.text = TRUE]}
  BY DEF Init
<1>2. asked.headers = <<>>
  BY DEF Init, NothingAsked
<1>3. \A A : <<>> \in Seq(A)
  OBVIOUS
<1>4. /\ email.text \in BOOLEAN /\ email.html = FALSE /\ email.headers = <<>>
      /\ email.attachments = <<>> /\ email.references = <<>>
      /\ email.message_id = None /\ email.in_reply_to = None /\ email.priority = None
  <2>1. CASE email = NewEmail
    BY <2>1 DEF NewEmail
  <2>2. CASE email = [NewEmail EXCEPT !.subject = v, !.text = TRUE]
    BY <2>2 DEF NewEmail
  <2> QED BY <1>1, <2>1, <2>2
<1> QED BY <1>2, <1>3, <1>4 DEF ContentInv, Filled

LEMMA ContentStep ==
  ASSUME EmailInv, ContentInv, [Next]_vars
  PROVE  ContentInv'
<1>1. /\ email = [f \in Fields |-> email[f]] /\ Typed(email) /\ AskedType(asked)
      /\ Filled(email) /\ (email.invalid_headers = {} => email.headers = asked.headers)
  BY DEF EmailInv, Typed, ContentInv
<1>2. ASSUME UNCHANGED <<email, asked>> PROVE ContentInv'
  BY <1>2 DEF ContentInv
<1>3. \A field \in {"from", "reply_to", "to", "cc", "bcc"} : \A v :
        [asked EXCEPT ![field] = v].headers = asked.headers
  BY <1>1 DEF AskedType
<1>4. CASE Build
  <2>1. ASSUME NEW field \in {"from", "reply_to"}, NEW s \in Inputs, SetAddress(field, s)
        PROVE  ContentInv'
    BY <1>1, <1>3, <2>1, AddressUntouched, AddressStep DEF SetAddress
  <2>2. ASSUME NEW field \in {"to", "cc", "bcc"}, NEW s \in Inputs, AddRecipient(field, s)
        PROVE  ContentInv'
    <3>1. Untouched(email, WithRecipient(email, field, s))
      BY <1>1, RecipientUntouched
    <3> QED BY <1>3, <2>2, <3>1, AddressStep DEF AddRecipient
  <2>3. ASSUME NEW list \in Lists, ToMany(list) PROVE ContentInv'
    <3>1. list \in Seq(Inputs)
      BY MessageConfig
    <3>2. Untouched(email, WithMany(email, list))
      BY <1>1, <3>1, ManyUntouched
    <3>3. asked'.headers = asked.headers
      BY <1>3, <2>3 DEF ToMany
    <3> QED BY <2>3, <3>2, <3>3, AddressStep DEF ToMany
  <2>4. ASSUME NEW h \in Headers, AddHeader(h) \/ PushHeader(h) PROVE ContentInv'
    <3>1. asked'.headers = Append(asked.headers, h)
      BY <1>1, <2>4 DEF AddHeader, PushHeader, AskedType
    <3>2. Append(email.headers, h) \in Seq(Headers)
      BY <1>1 DEF Filled
    <3>3. CASE email' = [email EXCEPT !["headers"] = Append(email.headers, h)]
      <4>1. email'.headers = Append(email.headers, h) /\ email'.invalid_headers = email.invalid_headers
        BY <1>1, <3>3, FieldsAre
      <4> QED BY <1>1, <3>1, <3>2, <3>3, <4>1, FieldStep, FieldsAre
    <3>4. CASE email' = [email EXCEPT !["invalid_headers"] = email.invalid_headers \cup {h}]
      <4>1. email'.invalid_headers # {}
        BY <1>1, <3>4, FieldsAre
      <4> QED BY <3>4, <4>1, FieldStep, FieldsAre
    <3> QED BY <2>4, <3>3, <3>4 DEF AddHeader, PushHeader, WithHeader
  <2>5. ASSUME NEW field \in {"from", "to"}, NEW s \in Inputs, BuilderAddress(field, s)
        PROVE  ContentInv'
    <3>1. CASE ~Parses(s)
      BY <1>2, <2>5, <3>1 DEF BuilderAddress
    <3>2. CASE Parses(s) /\ field = "to"
      <4>1. Untouched(email, WithRecipient(email, "to", s))
        BY <1>1, RecipientUntouched
      <4> QED BY <1>3, <2>5, <3>2, <4>1, AddressStep DEF BuilderAddress
    <3>3. CASE Parses(s) /\ field = "from"
      <4>1. Untouched(email, WithAddress(email, "from", s))
        BY <1>1, AddressUntouched
      <4> QED BY <1>3, <2>5, <3>3, <4>1, AddressStep DEF BuilderAddress
    <3> QED BY <3>1, <3>2, <3>3
  <2>6. ASSUME BuilderDone PROVE ContentInv'
    BY <1>2, <2>6 DEF BuilderDone
  <2>7. ASSUME NEW field \in Fields \ {"headers", "invalid_headers"}, NEW v,
               email' = [email EXCEPT ![field] = v], asked' = asked,
               field \in {"text", "html"} => v \in BOOLEAN,
               field = "attachments" => v \in Seq(Attachments),
               field \in {"message_id", "in_reply_to"} => v \in IdSet \cup {None},
               field = "references" => v \in Seq(IdSet),
               field = "priority" => v \in {None} \cup 1 .. 5
        PROVE  ContentInv'
    <3>1. email'.headers = email.headers /\ email'.invalid_headers = email.invalid_headers
      BY <1>1, <2>7, FieldsAre
    <3> QED BY <1>1, <2>7, <3>1, FieldStep
  <2>8. ASSUME NEW field \in {"message_id", "in_reply_to"}, NEW id \in Ids, SetField(field, id)
        PROVE  ContentInv'
    <3>1. id \in IdSet \cup {None} /\ field \in Fields \ {"headers", "invalid_headers"}
      BY FieldsAre DEF IdSet
    <3> QED BY <2>7, <2>8, <3>1 DEF SetField
  <2>9. ASSUME NEW id \in Ids, AddReference(id) PROVE ContentInv'
    <3>1. email' = [email EXCEPT !["references"] = Append(email.references, id)] /\ asked' = asked
      BY <2>9 DEF AddReference
    <3>2. Append(email.references, id) \in Seq(IdSet)
      BY <1>1 DEF Filled, IdSet
    <3> QED BY <2>7, <3>1, <3>2, FieldsAre
  <2>10. ASSUME NEW s, SetContent("subject", s) PROVE ContentInv'
    BY <2>7, <2>10, FieldsAre DEF SetContent
  <2>11. ASSUME NEW field \in {"text", "html"}, SetContent(field, TRUE) PROVE ContentInv'
    BY <2>7, <2>11, FieldsAre DEF SetContent
  <2>12. ASSUME NEW p \in Levels, SetPriority(p) PROVE ContentInv'
    <3>1. Clamped(p) \in 1 .. 5
      BY MessageConfig DEF Clamped
    <3> QED BY <2>7, <2>12, <3>1, FieldsAre DEF SetPriority, SetField
  <2>13. ASSUME NEW a \in Attachments, Attach(a) PROVE ContentInv'
    <3>1. email' = [email EXCEPT !["attachments"] = Append(email.attachments, a)] /\ asked' = asked
      BY <2>13 DEF Attach
    <3>2. Append(email.attachments, a) \in Seq(Attachments)
      BY <1>1 DEF Filled
    <3> QED BY <2>7, <3>1, <3>2, FieldsAre
  <2> QED BY <1>4, <2>1, <2>2, <2>3, <2>4, <2>5, <2>6, <2>8, <2>9, <2>10, <2>11, <2>12, <2>13 DEF Build
<1>5. ASSUME NEW s \in Inputs, NEW subject, NEW text \in BOOLEAN, NEW html \in BOOLEAN,
             email' = Begun(s, subject, text, html), asked' = [NothingAsked EXCEPT !.to = <<s>>]
      PROVE  ContentInv'
  BY <1>5, BegunFilled DEF ContentInv
<1>6. ASSUME NEW s \in Inputs, NEW subject, Canned(s, subject) PROVE ContentInv'
  BY <1>5, <1>6 DEF Canned
<1>7. ASSUME NEW s \in Inputs, NEW subject, NEW html \in BOOLEAN, SendSimple(s, subject, html)
      PROVE  ContentInv'
  BY <1>5, <1>7 DEF SendSimple
<1>8. ASSUME NEW s \in Inputs, NEW subject, NEW text \in BOOLEAN, NEW html \in BOOLEAN,
             SendTemplate(s, subject, text, html)
      PROVE  ContentInv'
  BY <1>2, <1>5, <1>8 DEF SendTemplate
<1>9. ASSUME Send \/ Attempt \/ (\E queue \in {"memory", "redis"} : Enqueue(queue)) PROVE ContentInv'
  BY <1>2, <1>9 DEF Send, Attempt, Enqueue
<1>10. CASE UNCHANGED vars
  BY <1>2, <1>10 DEF vars
<1> QED BY <1>4, <1>6, <1>7, <1>8, <1>9, <1>10 DEF Next

THEOREM ContentCorrect == Spec => []ContentInv
<1>1. Init => ContentInv
  BY ContentInit
<1>2. Inv /\ ContentInv /\ [Next]_vars => ContentInv'
  BY ContentStep DEF Inv
<1> QED BY <1>1, <1>2, InvCorrect, PTL DEF Spec

-----------------------------------------------------------------------------
(* What leaves. *)

(* The defaults, and the id a job is given, leave the content as it was.    *)
LEMMA ContentKept ==
  ASSUME EmailInv, ContentInv
  PROVE  LET x == ApplyDefaults(Identified)
         IN  /\ Filled(x)
             /\ \A f \in Fields \ {"from", "reply_to", "message_id"} : x[f] = email[f]
             /\ email.message_id # None => x.message_id = email.message_id
<1> DEFINE x == ApplyDefaults(Identified)
<1>1. \A f \in Fields \ {"from", "reply_to", "message_id"} : x[f] = email[f]
  BY DefaultsKeep
<1>2. email = [f \in Fields |-> email[f]] /\ Filled(email)
  BY DEF EmailInv, Typed, ContentInv
<1>3. /\ Identified = [f \in Fields |-> Identified[f]]
      /\ Identified.message_id \in {email.message_id, Minted}
      /\ email.message_id # None => Identified.message_id = email.message_id
  BY <1>2, FieldsAre DEF Identified
<1>4. x.message_id = Identified.message_id
  BY <1>3, FieldsAre DEF ApplyDefaults
<1>5. Minted \in IdSet
  BY DEF IdSet
<1> HIDE DEF x
<1>6. x.message_id \in IdSet \cup {None}
  BY <1>2, <1>3, <1>4, <1>5 DEF Filled
<1>7. Filled(x)
  BY <1>1, <1>2, <1>6, FieldsAre DEF Filled
<1> QED BY <1>1, <1>3, <1>4, <1>7 DEF x

LEMMA DeliveredCarries ==
  ASSUME Inv, ContentInv, NEW i \in DOMAIN wires, NEW t \in Transports, NEW w,
         w = wires[i][t], w # None
  PROVE  /\ \A k \in DOMAIN GivenHeaders : Values(w.headers, GivenHeaders[k].name)
                                = Surviving(t, Values(GivenHeaders, GivenHeaders[k].name))
         /\ email.message_id # None => IdsOf(w.headers, "Message-ID") = <<email.message_id.id>>
         /\ email.in_reply_to # None => IdsOf(w.headers, "In-Reply-To") = <<email.in_reply_to.id>>
         /\ IdsOf(w.headers, "References") = Surviving(t, ReferenceIds)
         /\ w.subject = WireSubject(email.subject)
         /\ (w.text = "given") = email.text /\ (w.html = "given") = email.html
         /\ \A f : FileCount(w.parts, f) = FileCount(email.attachments, f)
         /\ t # "mailgun" => Unique(w.headers) /\ DOMAIN w.headers = 1 .. Len(w.headers)
<1> DEFINE x == ApplyDefaults(Identified)
<1>1. w = Wire(t, x) /\ Wire(t, x) # None
  <2>1. wires[i] = Handed
    BY DEF Inv, SendInv
  <2> QED BY <2>1 DEF Handed
<1>2. /\ Filled(x) /\ \A f \in Fields \ {"from", "reply_to", "message_id"} : x[f] = email[f]
      /\ email.message_id # None => x.message_id = email.message_id
  BY ContentKept DEF Inv
<1> HIDE DEF x
<1>3. Valid(x) /\ Carries(t, w, x)
  BY <1>1, <1>2, WireAddressed, WireCarries
<1>4. /\ x.headers = email.headers /\ x.priority = email.priority /\ x.subject = email.subject
      /\ x.text = email.text /\ x.html = email.html /\ x.references = email.references
      /\ x.attachments = email.attachments /\ x.in_reply_to = email.in_reply_to
      /\ x.invalid_headers = email.invalid_headers
  BY <1>2, FieldsAre
<1>5. x.headers = asked.headers
  BY <1>3, <1>4 DEF Valid, ContentInv
<1>6. PriorityHeaders(x) = PriorityHeaders(email)
  BY <1>4 DEF PriorityHeaders
<1>7. /\ WireHeaders(x) = GivenHeaders /\ GivenHeaders \in WireList(Names, HeaderValues)
      /\ KeysIn(GivenHeaders, OtherKeys)
  <2>1. /\ WireHeaders(x) = CustomHeaders(x.headers) \o PriorityHeaders(x)
        /\ WireHeaders(x) \in WireList(Names, HeaderValues) /\ KeysIn(WireHeaders(x), OtherKeys)
    BY <1>2, <1>3, WireHeadersAre
  <2>2. CustomHeaders(asked.headers) \o PriorityHeaders(email) = GivenHeaders
    BY DEF GivenHeaders, CustomHeaders
  <2> QED BY <1>5, <1>6, <2>1, <2>2
<1>8. \A k \in DOMAIN GivenHeaders : Key(GivenHeaders[k].name) \in OtherKeys
  <2>1. GivenHeaders \in Seq(WireHeader(Names, HeaderValues))
    BY <1>7 DEF WireList
  <2>2. DOMAIN GivenHeaders = 1 .. Len(GivenHeaders)
    BY <2>1
  <2> QED BY <1>7, <2>2 DEF KeysIn
<1>9. Reaches(t, w.headers, x) /\ RefIds(x) = ReferenceIds
  BY <1>3, <1>4 DEF Carries, RefIds, ReferenceIds
<1>10. \A k \in DOMAIN GivenHeaders : Values(w.headers, GivenHeaders[k].name)
                                = Surviving(t, Values(GivenHeaders, GivenHeaders[k].name))
  BY <1>7, <1>8, <1>9 DEF Reaches
<1> QED BY <1>2, <1>3, <1>4, <1>9, <1>10 DEF Carries, Reaches

(* What leaves has its identifiers, its subject, its bodies and as many      *)
(* parts of each file as it had attachments, whichever transport takes it;  *)
(* through SendGrid and Mailgun every value of every header the caller gave *)
(* or its priority implies, in order, and every reference; through SMTP and *)
(* raw SES, where lettre's map of headers replaces by name, the last of     *)
(* each.  No name is repeated but in Mailgun's form.                        *)
THEOREM ContentCarriedCorrect == Spec => []ContentCarried
<1>1. ASSUME Inv, ContentInv PROVE ContentCarried
  <2> SUFFICES ASSUME NEW i \in DOMAIN wires, NEW t \in Transports, NEW w,
                      w = wires[i][t], w # None
               PROVE  /\ \A k \in DOMAIN GivenHeaders :
                           Values(w.headers, GivenHeaders[k].name)
                             = Surviving(t, Values(GivenHeaders, GivenHeaders[k].name))
                      /\ \A field \in {"message_id", "in_reply_to"} : email[field] # None =>
                           IdsOf(w.headers, IF field = "message_id" THEN "Message-ID" ELSE "In-Reply-To")
                             = << email[field].id >>
                      /\ IdsOf(w.headers, "References") = Surviving(t, ReferenceIds)
                      /\ w.subject = WireSubject(email.subject)
                      /\ (w.text = "given") = email.text /\ (w.html = "given") = email.html
                      /\ \A f \in Files :
                           Cardinality({k \in DOMAIN w.parts : w.parts[k].file = f.file})
                             = Cardinality({k \in DOMAIN email.attachments :
                                              email.attachments[k].file = f.file})
                      /\ t # "mailgun" => \A k, l \in DOMAIN w.headers :
                                           Key(w.headers[k].name) = Key(w.headers[l].name) => k = l
    BY DEF ContentCarried
  <2>1. /\ \A k \in DOMAIN GivenHeaders : Values(w.headers, GivenHeaders[k].name)
                               = Surviving(t, Values(GivenHeaders, GivenHeaders[k].name))
        /\ email.message_id # None => IdsOf(w.headers, "Message-ID") = <<email.message_id.id>>
        /\ email.in_reply_to # None => IdsOf(w.headers, "In-Reply-To") = <<email.in_reply_to.id>>
        /\ IdsOf(w.headers, "References") = Surviving(t, ReferenceIds)
        /\ w.subject = WireSubject(email.subject)
        /\ (w.text = "given") = email.text /\ (w.html = "given") = email.html
    BY <1>1, DeliveredCarries
  <2>2. /\ \A f : FileCount(w.parts, f) = FileCount(email.attachments, f)
        /\ t # "mailgun" => Unique(w.headers) /\ DOMAIN w.headers = 1 .. Len(w.headers)
    BY <1>1, DeliveredCarries
  <2>3. \A f \in Files : Cardinality({k \in DOMAIN w.parts : w.parts[k].file = f.file})
          = Cardinality({k \in DOMAIN email.attachments : email.attachments[k].file = f.file})
    BY <2>2 DEF FileCount
  <2>4. \A field \in {"message_id", "in_reply_to"} : email[field] # None =>
          IdsOf(w.headers, IF field = "message_id" THEN "Message-ID" ELSE "In-Reply-To")
            = << email[field].id >>
    BY <2>1
  <2>5. t # "mailgun" => \A k, l \in DOMAIN w.headers :
                          Key(w.headers[k].name) = Key(w.headers[l].name) => k = l
    BY <2>2 DEF Unique
  <2> QED BY <2>1, <2>3, <2>4, <2>5
<1>2. Inv /\ ContentInv => ContentCarried
  BY <1>1
<1> QED BY <1>2, InvCorrect, ContentCorrect, PTL
=============================================================================

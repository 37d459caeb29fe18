---------------------------- MODULE CliRunProofs ----------------------------
(***************************************************************************)
(* The command line, for arguments of any length: what the four parsers    *)
(* accept and read is what the usage text says (ParsersFollowUsage).       *)
(* Then cmd_run and cmd_serve with their signal handlers, for any command  *)
(* lines, queue capacity, number of tokens and of Ctrl-C.  Inv relates the *)
(* place of the main thread to the references it holds, the engine's state *)
(* to both, and what was taken from the stream to what was written.        *)
(***************************************************************************)
EXTENDS CliRun, FiniteSetTheorems, SequenceTheorems, TLAPS

-----------------------------------------------------------------------------
(* The parser                                                              *)

(* What the four tables have in common.                                    *)
IsSyntax(s) ==
    /\ "none" \notin DOMAIN s.valued
    /\ DOMAIN s.valued \cap s.flags = {}
    /\ "--" \notin DOMAIN s.valued /\ "--" \notin s.flags
    /\ DOMAIN s.valued \cup s.flags \cup {"--"} \subseteq Dashed
    /\ s.ends \in BOOLEAN /\ s.others \in Nat

LEMMA Syntaxes ==
    \A cmd_ \in {"serve", "run", "pull", "list"} : IsSyntax(SyntaxOf[cmd_])
<1> TAKE cmd_ \in {"serve", "run", "pull", "list"}
<1>1. DOMAIN SyntaxOf = {"serve", "run", "pull", "list"}
  BY DEF SyntaxOf
<1>2. DOMAIN SyntaxOf[cmd_].valued \cup SyntaxOf[cmd_].flags \cup {"--"} \subseteq Dashed
  BY <1>1, OptionsAssumption
<1>3. CASE cmd_ = "serve"
  <2>1. SyntaxOf[cmd_] = ServeSyntax
    BY <1>3 DEF SyntaxOf
  <2>2. QED
    BY <1>2, <2>1 DEF IsSyntax, ServeSyntax
<1>4. CASE cmd_ = "run"
  <2>1. SyntaxOf[cmd_] = RunSyntax
    BY <1>4 DEF SyntaxOf
  <2>2. QED
    BY <1>2, <2>1 DEF IsSyntax, RunSyntax
<1>5. CASE cmd_ = "pull"
  <2>1. SyntaxOf[cmd_] = PullSyntax
    BY <1>5 DEF SyntaxOf
  <2>2. QED
    BY <1>2, <2>1 DEF IsSyntax, PullSyntax
<1>6. CASE cmd_ = "list"
  <2>1. SyntaxOf[cmd_] = ListSyntax
    BY <1>6 DEF SyntaxOf
  <2>2. QED
    BY <1>2, <2>1 DEF IsSyntax, ListSyntax
<1>7. QED
  BY <1>3, <1>4, <1>5, <1>6

(* What a parser can have read.                                            *)
Values(s) == UNION {[D -> Args] : D \in SUBSET DOMAIN s.valued}

Parses(s) ==
    [ok : BOOLEAN, want : {"none"} \cup DOMAIN s.valued, done : BOOLEAN, value : Values(s),
     flags : SUBSET s.flags, other : Seq(Args)]

With(f, o, a) == [x \in DOMAIN f \cup {o} |-> IF x = o THEN a ELSE f[x]]

LEMMA UnreadTyped == \A s : Unread \in Parses(s)
<1> TAKE s
<1>1. <<>> \in Values(s)
  <2>1. <<>> = [x \in {} |-> x] /\ <<>> \in [{} -> Args]
    OBVIOUS
  <2>2. QED
    BY <2>1 DEF Values
<1>2. QED
  BY <1>1 DEF Unread, Parses

(* The fields of r, one by one.                                            *)
Fields(r, b, w, dn, v, f, o) ==
    r.ok = b /\ r.want = w /\ r.done = dn /\ r.value = v /\ r.flags = f /\ r.other = o

LEMMA Truths == \A x, S, y : (x \in S) \in BOOLEAN /\ (x = y) \in BOOLEAN
OBVIOUS

LEMMA Kept ==
  ASSUME NEW s, NEW p \in Parses(s)
  PROVE  /\ p.ok \in BOOLEAN /\ p.want \in {"none"} \cup DOMAIN s.valued /\ p.done \in BOOLEAN
         /\ p.value \in Values(s) /\ p.flags \in SUBSET s.flags /\ p.other \in Seq(Args)
         /\ p = [ok |-> p.ok, want |-> p.want, done |-> p.done, value |-> p.value,
                 flags |-> p.flags, other |-> p.other]
BY DEF Parses

(* The four things one argument can be, field by field.                    *)
LEMMA ReadArgRefused ==
  ASSUME NEW s, NEW p \in Parses(s), NEW a \in Args, p.ok = FALSE
  PROVE  ReadArg(s, p, a) = p
BY DEF ReadArg, Parses

LEMMA ReadArgValue ==
  ASSUME NEW s, NEW p \in Parses(s), NEW a \in Args, p.ok = TRUE, p.want # "none"
  PROVE  LET r == ReadArg(s, p, a) IN
         /\ r \in Parses(s)
         /\ Fields(r, a \in s.valued[p.want], "none", p.done, With(p.value, p.want, a),
                   p.flags, p.other)
<1> DEFINE b == a \in s.valued[p.want]
           v == With(p.value, p.want, a)
<1>1. v \in Values(s)
  <2>1. PICK D \in SUBSET DOMAIN s.valued : p.value \in [D -> Args]
    BY DEF Parses, Values
  <2>2. p.want \in DOMAIN s.valued
    BY DEF Parses
  <2>3. With(p.value, p.want, a) \in [D \cup {p.want} -> Args]
    BY <2>1 DEF With
  <2>4. QED
    BY <2>2, <2>3 DEF Values
<1>2. ReadArg(s, p, a) = [p EXCEPT !.want = "none", !.ok = b, !.value = v]
  BY DEF ReadArg, With
<1>3. b \in BOOLEAN
  BY Truths
<1> HIDE DEF b, v
<1>4. ReadArg(s, p, a) =
                        [ok |-> b, want |-> "none", done |-> p.done, value |-> v,
                         flags |-> p.flags, other |-> p.other]
  BY <1>2, Kept
<1>5. ReadArg(s, p, a) \in Parses(s)
  BY <1>1, <1>3, <1>4, Kept DEF Parses
<1>6. Fields(ReadArg(s, p, a), b, "none", p.done, v, p.flags, p.other)
  BY <1>4 DEF Fields
<1>7. QED
  BY <1>5, <1>6 DEF b, v

LEMMA ReadArgOther ==
  ASSUME NEW s, NEW p \in Parses(s), NEW a \in Args, p.ok = TRUE, p.want = "none",
         p.done = TRUE \/ a \notin Dashed, s.others \in Nat
  PROVE  LET r == ReadArg(s, p, a) IN
         /\ r \in Parses(s)
         /\ Fields(r, Len(p.other) < s.others, "none", p.done, p.value, p.flags,
                   Append(p.other, a))
<1> DEFINE b == Len(p.other) < s.others
           o == Append(p.other, a)
<1>1. ReadArg(s, p, a) = [p EXCEPT !.ok = b, !.other = o]
  BY DEF ReadArg
<1>2. b \in BOOLEAN /\ o \in Seq(Args)
  <2>1. p.other \in Seq(Args)
    BY Kept
  <2>2. o \in Seq(Args)
    BY <2>1
  <2>3. Len(p.other) \in Nat
    BY <2>1
  <2>4. b \in BOOLEAN
    BY <2>3, SMT
  <2>5. QED
    BY <2>2, <2>4
<1> HIDE DEF b, o
<1>4. ReadArg(s, p, a) =
                        [ok |-> b, want |-> "none", done |-> p.done, value |-> p.value,
                         flags |-> p.flags, other |-> o]
  BY <1>1, Kept
<1>5. ReadArg(s, p, a) \in Parses(s)
  BY <1>2, <1>4, Kept DEF Parses
<1>6. Fields(ReadArg(s, p, a), b, "none", p.done, p.value, p.flags, o)
  BY <1>4 DEF Fields
<1>7. QED
  BY <1>5, <1>6 DEF b, o

LEMMA ReadArgDashed ==
  ASSUME NEW s, NEW p \in Parses(s), NEW a \in Args, p.ok = TRUE, p.want = "none", p.done = FALSE, a \in Dashed,
         s.ends \in BOOLEAN
  PROVE  LET r == ReadArg(s, p, a) IN
         /\ r \in Parses(s)
         /\ Fields(r, a \in DOMAIN s.valued \cup s.flags \/ (s.ends = TRUE /\ a = "--"),
                   IF a \in DOMAIN s.valued THEN a ELSE "none",
                   s.ends = TRUE /\ a = "--", p.value,
                   IF a \in s.flags THEN p.flags \cup {a} ELSE p.flags, p.other)
<1> DEFINE b == a \in DOMAIN s.valued \cup s.flags \/ (s.ends = TRUE /\ a = "--")
           w == IF a \in DOMAIN s.valued THEN a ELSE "none"
           e == s.ends = TRUE /\ a = "--"
           f == IF a \in s.flags THEN p.flags \cup {a} ELSE p.flags
<1>1. ReadArg(s, p, a) = [p EXCEPT !.done = e, !.want = w, !.flags = f, !.ok = b]
  BY DEF ReadArg
<1>2. b \in BOOLEAN /\ e \in BOOLEAN
  OBVIOUS
<1>3. w \in {"none"} \cup DOMAIN s.valued
  OBVIOUS
<1>4. f \in SUBSET s.flags
  BY Kept
<1> HIDE DEF b, w, e, f
<1>5. ReadArg(s, p, a) =
                        [ok |-> b, want |-> w, done |-> e, value |-> p.value,
                         flags |-> f, other |-> p.other]
  BY <1>1, Kept
<1>6. ReadArg(s, p, a) \in Parses(s)
  BY <1>2, <1>3, <1>4, <1>5, Kept DEF Parses
<1>7. Fields(ReadArg(s, p, a), b, w, e, p.value, f, p.other)
  BY <1>5 DEF Fields
<1>8. QED
  BY <1>6, <1>7 DEF b, w, e, f

LEMMA ReadArgTyped ==
  ASSUME NEW s, IsSyntax(s), NEW p \in Parses(s), NEW a \in Args
  PROVE  ReadArg(s, p, a) \in Parses(s)
<1>1. p.ok \in BOOLEAN /\ p.done \in BOOLEAN /\ s.ends \in BOOLEAN /\ s.others \in Nat
  BY Kept DEF IsSyntax
<1>2. CASE p.ok = FALSE
  BY <1>2, ReadArgRefused
<1>3. CASE p.ok = TRUE /\ p.want # "none"
  BY <1>3, ReadArgValue
<1>4. CASE p.ok = TRUE /\ p.want = "none" /\ (p.done = TRUE \/ a \notin Dashed)
  BY <1>1, <1>4, ReadArgOther
<1>5. CASE p.ok = TRUE /\ p.want = "none" /\ p.done = FALSE /\ a \in Dashed
  BY <1>1, <1>5, ReadArgDashed
<1>6. QED
  BY <1>1, <1>2, <1>3, <1>4, <1>5

(* The role the parser gives to an argument, and the arguments with a role *)
(* among the first ones.                                                   *)
Role(s, p, a) ==
    IF p.want # "none" THEN "value"
    ELSE IF p.done = TRUE \/ a \notin Dashed THEN "other"
    ELSE IF a \in DOMAIN s.valued THEN "option"
    ELSE IF a \in s.flags THEN "flag" ELSE "end"

At(role, r, k) == {i \in 1..k : role[i] = r}

(* After k arguments: what the parser waits for, ...                       *)
Pending(args, role, p, k) ==
    /\ p.want # "none" => k > 0 /\ role[k] = "option" /\ p.want = args[k]
    /\ k > 0 /\ role[k] = "option" => p.want = args[k] /\ p.want # "none"
    /\ p.done = TRUE => \E j \in 1..k : role[j] = "end"
    /\ (\E j \in 1..k : role[j] = "end") => p.done = TRUE
    /\ p.done = TRUE => p.want = "none"

(* ... that they are as the usage text has them, ...                       *)
FitsAt(s, args, role, k, i) ==
    /\ role[i] \in Roles
    /\ role[i] = "value" <=> i > 1 /\ role[i - 1] = "option"
    /\ role[i] = "option" =>
          args[i] \in DOMAIN s.valued /\ (i < k => args[i + 1] \in s.valued[args[i]])
    /\ role[i] = "flag" => args[i] \in s.flags
    /\ role[i] = "end" => s.ends = TRUE /\ args[i] = "--"
    /\ role[i] = "other" =>
          args[i] \notin Dashed \/ \E j \in 1..(i - 1) : role[j] = "end"
    /\ \A j \in 1..(i - 1) : role[j] = "end" => role[i] = "other"

Fitting(s, args, role, k) == \A i \in 1..k : FitsAt(s, args, role, k, i)

(* ... and that what was read is what they say.                            *)
Latest(args, role, value, o, k) ==
    \E i \in At(role, "option", k) :
        /\ args[i] = o /\ value[o] = args[i + 1]
        /\ \A j \in At(role, "option", k) : args[j] = o => j =< i

Valued(args, role, value, k) ==
    /\ DOMAIN value = {args[i] : i \in At(role, "option", k)}
    /\ \A o \in DOMAIN value : Latest(args, role, value, o, k)

Others(s, args, role, other, k) ==
    /\ {other[i] : i \in DOMAIN other} = {args[i] : i \in At(role, "other", k)}
    /\ Len(other) = Cardinality(At(role, "other", k))
    /\ Len(other) =< s.others

Flagged(args, role, flags, k) == flags = {args[i] : i \in At(role, "flag", k)}

Said(s, args, role, p, k) ==
    /\ Flagged(args, role, p.flags, k)
    /\ Valued(args, role, p.value, k - 1)
    /\ Others(s, args, role, p.other, k)

Tracks(s, args, role, p, k) ==
    Pending(args, role, p, k) /\ Fitting(s, args, role, k) /\ Said(s, args, role, p, k)

LEMMA AtStep ==
  ASSUME NEW role, NEW r, NEW k \in Nat
  PROVE  At(role, r, k + 1) = IF role[k + 1] = r THEN At(role, r, k) \cup {k + 1}
                                                  ELSE At(role, r, k)
<1>1. 1..(k + 1) = (1..k) \cup {k + 1}
  OBVIOUS
<1>2. QED
  BY <1>1 DEF At

LEMMA AtFinite ==
  ASSUME NEW role, NEW r, NEW k \in Nat
  PROVE  /\ IsFiniteSet(At(role, r, k)) /\ Cardinality(At(role, r, k)) \in Nat
         /\ k + 1 \notin At(role, r, k)
<1>1. IsFiniteSet(1..k)
  BY FS_Interval
<1>2. At(role, r, k) \subseteq 1..k
  BY DEF At
<1>3. IsFiniteSet(At(role, r, k))
  BY <1>1, <1>2, FS_Subset
<1>4. QED
  BY <1>2, <1>3, FS_CardinalityType

LEMMA FitsGrow ==
  ASSUME NEW s, NEW args, NEW role, NEW k \in Nat, Fitting(s, args, role, k),
         k > 0 /\ role[k] = "option" => args[k + 1] \in s.valued[args[k]],
         FitsAt(s, args, role, k + 1, k + 1)
  PROVE  Fitting(s, args, role, k + 1)
<1>1. ASSUME NEW i \in 1..k  PROVE FitsAt(s, args, role, k + 1, i)
  <2>1. FitsAt(s, args, role, k, i)
    BY DEF Fitting
  <2>2. role[i] = "option" => args[i + 1] \in s.valued[args[i]]
    <3>1. CASE i = k
      BY <3>1
    <3>2. CASE i < k
      BY <2>1, <3>2 DEF FitsAt
    <3>3. QED
      BY <3>1, <3>2
  <2>3. QED
    BY <2>1, <2>2 DEF FitsAt
<1>2. \A i \in 1..(k + 1) : i \in 1..k \/ i = k + 1
  OBVIOUS
<1>3. QED
  BY <1>1, <1>2 DEF Fitting

LEMMA OthersKept ==
  ASSUME NEW s, NEW args, NEW role, NEW k \in Nat, NEW other,
         Others(s, args, role, other, k), role[k + 1] # "other"
  PROVE  Others(s, args, role, other, k + 1)
BY AtStep DEF Others

LEMMA OthersGrow ==
  ASSUME NEW s, NEW args, NEW role, NEW k \in Nat, NEW other \in Seq(Args),
         Others(s, args, role, other, k), role[k + 1] = "other", args[k + 1] \in Args,
         s.others \in Nat, Len(other) < s.others
  PROVE  Others(s, args, role, Append(other, args[k + 1]), k + 1)
<1> DEFINE w == Append(other, args[k + 1])
           n == Len(other)
<1>1. At(role, "other", k + 1) = At(role, "other", k) \cup {k + 1}
  BY AtStep
<1>2. n \in Nat /\ Len(w) = n + 1 /\ DOMAIN other = 1..n /\ DOMAIN w = 1..(n + 1)
  BY DEF n, w
<1>3. (\A i \in 1..n : w[i] = other[i]) /\ w[n + 1] = args[k + 1]
  BY DEF n, w
<1>4. {w[i] : i \in DOMAIN w} = {other[i] : i \in DOMAIN other} \cup {args[k + 1]}
  <2> HIDE DEF w, n
  <2>1. 1..(n + 1) = 1..n \cup {n + 1}
    BY <1>2
  <2>2. QED
    BY <1>2, <1>3, <2>1
<1>5. Cardinality(At(role, "other", k + 1)) = Cardinality(At(role, "other", k)) + 1
  BY <1>1, AtFinite, FS_AddElement
<1>6. {args[i] : i \in At(role, "other", k + 1)}
         = {args[i] : i \in At(role, "other", k)} \cup {args[k + 1]}
  BY <1>1
<1>7. Len(w) =< s.others
  BY <1>2
<1>8. QED
  BY <1>2, <1>4, <1>5, <1>6, <1>7 DEF Others

LEMMA FlaggedKept ==
  ASSUME NEW args, NEW role, NEW k \in Nat, NEW flags, Flagged(args, role, flags, k),
         role[k + 1] # "flag"
  PROVE  Flagged(args, role, flags, k + 1)
BY AtStep DEF Flagged

LEMMA FlaggedGrow ==
  ASSUME NEW args, NEW role, NEW k \in Nat, NEW flags, Flagged(args, role, flags, k),
         role[k + 1] = "flag"
  PROVE  Flagged(args, role, flags \cup {args[k + 1]}, k + 1)
<1>1. At(role, "flag", k + 1) = At(role, "flag", k) \cup {k + 1}
  BY AtStep
<1>2. QED
  BY <1>1 DEF Flagged

(* An option's value replaces the one an earlier one had.                  *)
LEMMA ValuedGrow ==
  ASSUME NEW args, NEW role, NEW k \in Nat, NEW value, Valued(args, role, value, k),
         role[k + 1] = "option"
  PROVE  Valued(args, role, With(value, args[k + 1], args[k + 2]), k + 1)
<1> DEFINE v == With(value, args[k + 1], args[k + 2])
<1>1. At(role, "option", k + 1) = At(role, "option", k) \cup {k + 1}
  BY AtStep
<1>2. \A i \in At(role, "option", k) : i \in 1..k
  BY DEF At
<1>3. /\ DOMAIN v = DOMAIN value \cup {args[k + 1]}
      /\ \A o \in DOMAIN v : v[o] = IF o = args[k + 1] THEN args[k + 2] ELSE value[o]
  BY DEF With
<1>4. DOMAIN v = {args[i] : i \in At(role, "option", k + 1)}
  BY <1>1, <1>3 DEF Valued
<1> HIDE DEF v
<1>5. ASSUME NEW o \in DOMAIN v  PROVE Latest(args, role, v, o, k + 1)
  <2>1. CASE o = args[k + 1]
    <3>1. (k + 1) + 1 = k + 2 /\ \A j \in 1..k : j =< k + 1
      OBVIOUS
    <3>2. QED
      BY <1>1, <1>2, <1>3, <1>5, <2>1, <3>1 DEF Latest
  <2>2. CASE o # args[k + 1]
    <3>1. o \in DOMAIN value /\ v[o] = value[o]
      BY <1>3, <1>5, <2>2
    <3>2. Latest(args, role, value, o, k)
      BY <3>1 DEF Valued
    <3>3. QED
      BY <1>1, <2>2, <3>1, <3>2 DEF Latest
  <2>3. QED
    BY <2>1, <2>2
<1>6. QED
  BY <1>4, <1>5 DEF Valued, v

LEMMA ValuedKept ==
  ASSUME NEW args, NEW role, NEW k \in Nat, NEW value, Valued(args, role, value, k - 1),
         k = 0 \/ role[k] # "option"
  PROVE  Valued(args, role, value, k)
<1>1. At(role, "option", k) = At(role, "option", k - 1)
  BY DEF At
<1>2. QED
  BY <1>1 DEF Valued, Latest

(* One more argument the parser accepts keeps to the usage text.           *)
LEMMA NextRead ==
  ASSUME NEW s, IsSyntax(s), NEW args \in Seq(Args), NEW k \in 0..(Len(args) - 1), NEW role,
         NEW p \in Parses(s), p.ok = TRUE, Tracks(s, args, role, p, k),
         role[k + 1] = Role(s, p, args[k + 1]),
         ReadArg(s, p, args[k + 1]).ok = TRUE
  PROVE  Tracks(s, args, role, ReadArg(s, p, args[k + 1]), k + 1)
<1> DEFINE a == args[k + 1]
           r == ReadArg(s, p, a)
<1>1. a \in Args /\ k \in Nat /\ (k + 1) - 1 = k /\ k + 1 > 0
  OBVIOUS
<1>2. Pending(args, role, p, k) /\ Fitting(s, args, role, k) /\ Said(s, args, role, p, k)
  BY DEF Tracks
<1>3. s.ends \in BOOLEAN /\ s.others \in Nat
  BY DEF IsSyntax
<1>4. p.done \in BOOLEAN /\ p.other \in Seq(Args)
  BY Kept
<1>5. role[k + 1] = Role(s, p, a) /\ r.ok = TRUE
  OBVIOUS
<1>6. CASE p.want # "none"
  <2>1. Fields(r, a \in s.valued[p.want], "none", p.done, With(p.value, p.want, a),
               p.flags, p.other)
    BY <1>1, <1>6, ReadArgValue
  <2> HIDE DEF a, r
  <2>2. /\ k > 0 /\ role[k] = "option" /\ p.want = args[k]
        /\ role[k + 1] = "value" /\ p.done = FALSE
    BY <1>2, <1>4, <1>5, <1>6 DEF Pending, Role
  <2>3. a \in s.valued[args[k]]
    BY <1>5, <2>1, <2>2 DEF Fields
  <2>4. ~ \E j \in 1..k : role[j] = "end"
    BY <1>2, <2>2 DEF Pending
  <2>5. Pending(args, role, r, k + 1)
    BY <1>1, <2>1, <2>2, <2>4 DEF Pending, Fields
  <2>6. Fitting(s, args, role, k + 1)
    <3>1. FitsAt(s, args, role, k + 1, k + 1)
      BY <1>1, <2>2, <2>4 DEF FitsAt, Roles
    <3>2. QED
      BY <1>1, <1>2, <2>3, <3>1, FitsGrow DEF a
  <2>7. Said(s, args, role, r, k + 1)
    <3>1. Valued(args, role, r.value, k)
      <4>1. k - 1 \in Nat /\ (k - 1) + 1 = k /\ (k - 1) + 2 = k + 1
        BY <1>1, <2>2
      <4>2. Valued(args, role, p.value, k - 1)
        BY <1>2 DEF Said
      <4>3. Valued(args, role, With(p.value, args[k], args[k + 1]), k)
        BY <2>2, <4>1, <4>2, ValuedGrow
      <4>4. QED
        BY <2>1, <2>2, <4>3 DEF Fields, a
    <3>2. Others(s, args, role, r.other, k + 1)
      BY <1>1, <1>2, <2>1, <2>2, OthersKept DEF Fields, Said
    <3>3. Flagged(args, role, r.flags, k + 1)
      BY <1>1, <1>2, <2>1, <2>2, FlaggedKept DEF Fields, Said
    <3>4. QED
      BY <1>1, <3>1, <3>2, <3>3 DEF Said
  <2>8. QED
    BY <2>5, <2>6, <2>7 DEF Tracks, a, r
<1>7. CASE p.want = "none" /\ (p.done = TRUE \/ a \notin Dashed)
  <2>1. Fields(r, Len(p.other) < s.others, "none", p.done, p.value, p.flags,
               Append(p.other, a))
    BY <1>1, <1>3, <1>7, ReadArgOther
  <2> HIDE DEF a, r
  <2>2. role[k + 1] = "other" /\ (k = 0 \/ role[k] # "option")
    BY <1>1, <1>2, <1>5, <1>7 DEF Pending, Role
  <2>3. Pending(args, role, r, k + 1)
    <3>1. \A j \in 1..(k + 1) : role[j] = "end" => j \in 1..k
      BY <1>1, <2>2
    <3>2. \A j \in 1..k : j \in 1..(k + 1)
      BY <1>1
    <3>3. r.want = "none" /\ r.done = p.done
      BY <2>1 DEF Fields
    <3>4. QED
      BY <1>1, <1>2, <2>2, <3>1, <3>2, <3>3 DEF Pending
  <2>4. Fitting(s, args, role, k + 1)
    <3>1. FitsAt(s, args, role, k + 1, k + 1)
      BY <1>1, <1>2, <1>7, <2>2 DEF FitsAt, Roles, Pending, a
    <3>2. QED
      BY <1>1, <1>2, <2>2, <3>1, FitsGrow
  <2>5. Said(s, args, role, r, k + 1)
    <3>1. Valued(args, role, r.value, k)
      BY <1>1, <1>2, <2>1, <2>2, ValuedKept DEF Fields, Said
    <3>2. Others(s, args, role, r.other, k + 1)
      <4>1. Len(p.other) < s.others
        BY <1>5, <2>1 DEF Fields
      <4>2. Others(s, args, role, Append(p.other, args[k + 1]), k + 1)
        BY <1>1, <1>2, <1>3, <1>4, <2>2, <4>1, OthersGrow DEF Said, a
      <4>3. QED
        BY <2>1, <4>2 DEF Fields, a
    <3>3. Flagged(args, role, r.flags, k + 1)
      BY <1>1, <1>2, <2>1, <2>2, FlaggedKept DEF Fields, Said
    <3>4. QED
      BY <1>1, <3>1, <3>2, <3>3 DEF Said
  <2>6. QED
    BY <2>3, <2>4, <2>5 DEF Tracks, a, r
<1>8. CASE p.want = "none" /\ p.done = FALSE /\ a \in Dashed
  <2>1. Fields(r, a \in DOMAIN s.valued \cup s.flags \/ (s.ends = TRUE /\ a = "--"),
               IF a \in DOMAIN s.valued THEN a ELSE "none",
               s.ends = TRUE /\ a = "--", p.value,
               IF a \in s.flags THEN p.flags \cup {a} ELSE p.flags, p.other)
    BY <1>1, <1>3, <1>8, ReadArgDashed
  <2> HIDE DEF a, r
  <2>2. /\ role[k + 1] = (IF a \in DOMAIN s.valued THEN "option"
                          ELSE IF a \in s.flags THEN "flag" ELSE "end")
        /\ k = 0 \/ role[k] # "option"
        /\ ~ \E j \in 1..k : role[j] = "end"
    BY <1>1, <1>2, <1>5, <1>8 DEF Pending, Role
  <2>3. a \in DOMAIN s.valued \cup s.flags \/ (s.ends = TRUE /\ a = "--")
    BY <1>5, <2>1 DEF Fields
  <2>4. role[k + 1] = "end" <=> s.ends = TRUE /\ a = "--"
    BY <2>2, <2>3 DEF IsSyntax
  <2>5. role[k + 1] = "option" <=> a \in DOMAIN s.valued
    BY <2>2
  <2>6. role[k + 1] = "flag" <=> a \in s.flags
    BY <2>2 DEF IsSyntax
  <2>7. Pending(args, role, r, k + 1)
    <3>1. /\ r.want = (IF a \in DOMAIN s.valued THEN a ELSE "none")
          /\ r.done = TRUE <=> role[k + 1] = "end"
      BY <2>1, <2>4 DEF Fields
    <3>2. a \in DOMAIN s.valued => a # "none"
      BY DEF IsSyntax
    <3>3. \A j \in 1..(k + 1) : role[j] = "end" => j = k + 1
      BY <1>1, <2>2
    <3>4. k + 1 \in 1..(k + 1)
      BY <1>1
    <3>5. QED
      BY <1>1, <2>5, <3>1, <3>2, <3>3, <3>4 DEF Pending, a
  <2>8. Fitting(s, args, role, k + 1)
    <3>1. FitsAt(s, args, role, k + 1, k + 1)
      BY <1>1, <2>2, <2>4, <2>5, <2>6 DEF FitsAt, Roles, a
    <3>2. QED
      BY <1>1, <1>2, <2>2, <3>1, FitsGrow
  <2>9. Said(s, args, role, r, k + 1)
    <3>1. Valued(args, role, r.value, k)
      BY <1>1, <1>2, <2>1, <2>2, ValuedKept DEF Fields, Said
    <3>2. Others(s, args, role, r.other, k + 1)
      <4>1. role[k + 1] # "other"
        BY <2>2
      <4>2. QED
        BY <1>1, <1>2, <2>1, <4>1, OthersKept DEF Fields, Said
    <3>3. Flagged(args, role, r.flags, k + 1)
      <4>1. Flagged(args, role, p.flags, k)
        BY <1>2 DEF Said
      <4>2. r.flags = IF a \in s.flags THEN p.flags \cup {a} ELSE p.flags
        BY <2>1 DEF Fields
      <4>3. CASE a \in s.flags
        BY <1>1, <2>6, <4>1, <4>2, <4>3, FlaggedGrow DEF a
      <4>4. CASE a \notin s.flags
        BY <1>1, <2>6, <4>1, <4>2, <4>4, FlaggedKept
      <4>5. QED
        BY <4>3, <4>4
    <3>4. QED
      BY <1>1, <3>1, <3>2, <3>3 DEF Said
  <2>10. QED
    BY <2>7, <2>8, <2>9 DEF Tracks, a, r
<1>9. QED
  BY <1>4, <1>6, <1>7, <1>8

(* An argument in a role the usage text gives it is accepted, and in no    *)
(* other.                                                                  *)
LEMMA NextFits ==
  ASSUME NEW s, IsSyntax(s), NEW args \in Seq(Args), NEW k \in 0..(Len(args) - 1), NEW role,
         NEW p \in Parses(s), p.ok = TRUE, Tracks(s, args, role, p, k),
         FitsAt(s, args, role, Len(args), k + 1),
         k > 0 => FitsAt(s, args, role, Len(args), k),
         Cardinality(At(role, "other", Len(args))) =< s.others
  PROVE  /\ role[k + 1] = Role(s, p, args[k + 1])
         /\ ReadArg(s, p, args[k + 1]).ok = TRUE
<1> DEFINE a == args[k + 1]
           r == ReadArg(s, p, a)
           n == Len(args)
<1>1. a \in Args /\ k \in Nat /\ (k + 1) - 1 = k /\ k + 1 > 0 /\ n \in Nat /\ k < n
  OBVIOUS
<1>2. Pending(args, role, p, k) /\ Fitting(s, args, role, k) /\ Said(s, args, role, p, k)
  BY DEF Tracks
<1>3. s.ends \in BOOLEAN /\ s.others \in Nat
  BY DEF IsSyntax
<1>4. p.done \in BOOLEAN /\ p.other \in Seq(Args)
  BY Kept
<1>5. FitsAt(s, args, role, n, k + 1) /\ (k > 0 => FitsAt(s, args, role, n, k))
  OBVIOUS
<1>6. CASE p.want # "none"
  <2>1. Fields(r, a \in s.valued[p.want], "none", p.done, With(p.value, p.want, a),
               p.flags, p.other)
    BY <1>1, <1>6, ReadArgValue
  <2> HIDE DEF a, r, n
  <2>2. k > 0 /\ role[k] = "option" /\ p.want = args[k]
    BY <1>2, <1>6 DEF Pending
  <2>3. role[k + 1] = "value"
    BY <1>1, <1>5, <2>2 DEF FitsAt
  <2>4. a \in s.valued[args[k]]
    BY <1>1, <1>5, <2>2 DEF FitsAt, a
  <2>5. r.ok = TRUE
    BY <2>1, <2>2, <2>4 DEF Fields
  <2>6. QED
    BY <1>6, <2>3, <2>5 DEF Role, a, r
<1>7. CASE p.want = "none" /\ (p.done = TRUE \/ a \notin Dashed)
  <2>1. Fields(r, Len(p.other) < s.others, "none", p.done, p.value, p.flags,
               Append(p.other, a))
    BY <1>1, <1>3, <1>7, ReadArgOther
  <2> HIDE DEF a, r, n
  <2>2. role[k + 1] = "other"
    <3>1. CASE p.done = TRUE
      BY <1>1, <1>2, <1>5, <3>1 DEF Pending, FitsAt
    <3>2. CASE a \notin Dashed
      <4>1. role[k + 1] # "value"
        BY <1>1, <1>2, <1>5, <1>7 DEF Pending, FitsAt
      <4>2. role[k + 1] \notin {"option", "flag", "end"}
        BY <1>5, <3>2 DEF FitsAt, IsSyntax, a
      <4>3. QED
        BY <1>5, <4>1, <4>2 DEF FitsAt, Roles
    <3>3. QED
      BY <1>7, <3>1, <3>2
  <2>3. Cardinality(At(role, "other", k)) < s.others
    <3>1. /\ At(role, "other", k + 1) = At(role, "other", k) \cup {k + 1}
          /\ k + 1 \notin At(role, "other", k) /\ IsFiniteSet(At(role, "other", k))
          /\ Cardinality(At(role, "other", k)) \in Nat
      <4>1. At(role, "other", k + 1) = At(role, "other", k) \cup {k + 1}
        BY <1>1, <2>2, AtStep
      <4>2. QED
        BY <1>1, <4>1, AtFinite
    <3>2. Cardinality(At(role, "other", k + 1)) = Cardinality(At(role, "other", k)) + 1
      BY <3>1, FS_AddElement
    <3>3. At(role, "other", k + 1) \subseteq At(role, "other", n)
      BY <1>1 DEF At
    <3>4. IsFiniteSet(At(role, "other", n)) /\ Cardinality(At(role, "other", n)) \in Nat
      BY <1>1, AtFinite
    <3>5. Cardinality(At(role, "other", k + 1)) =< Cardinality(At(role, "other", n))
      BY <3>3, <3>4, FS_Subset
    <3>6. Cardinality(At(role, "other", n)) =< s.others
      BY DEF n
    <3>7. QED
      BY <1>3, <3>1, <3>2, <3>4, <3>5, <3>6
  <2>4. Len(p.other) < s.others
    BY <1>2, <2>3 DEF Said, Others
  <2>5. r.ok = TRUE
    BY <2>1, <2>4 DEF Fields
  <2>6. QED
    BY <1>7, <2>2, <2>5 DEF Role, a, r
<1>8. CASE p.want = "none" /\ p.done = FALSE /\ a \in Dashed
  <2>1. Fields(r, a \in DOMAIN s.valued \cup s.flags \/ (s.ends = TRUE /\ a = "--"),
               IF a \in DOMAIN s.valued THEN a ELSE "none",
               s.ends = TRUE /\ a = "--", p.value,
               IF a \in s.flags THEN p.flags \cup {a} ELSE p.flags, p.other)
    BY <1>1, <1>3, <1>8, ReadArgDashed
  <2> HIDE DEF a, r, n
  <2>2. role[k + 1] # "value"
    BY <1>1, <1>2, <1>5, <1>8 DEF Pending, FitsAt
  <2>3. role[k + 1] # "other"
    BY <1>1, <1>2, <1>5, <1>8 DEF Pending, FitsAt, a
  <2>4. /\ role[k + 1] = "option" => a \in DOMAIN s.valued
        /\ role[k + 1] = "flag" => a \in s.flags
        /\ role[k + 1] = "end" => s.ends = TRUE /\ a = "--"
    BY <1>5 DEF FitsAt, a
  <2>5. role[k + 1] \in {"option", "flag", "end"}
    BY <1>5, <2>2, <2>3 DEF FitsAt, Roles
  <2>6. r.ok = TRUE
    BY <2>1, <2>4, <2>5 DEF Fields
  <2>7. role[k + 1] = (IF a \in DOMAIN s.valued THEN "option"
                      ELSE IF a \in s.flags THEN "flag" ELSE "end")
    BY <2>4, <2>5 DEF IsSyntax
  <2>8. QED
    BY <1>8, <2>6, <2>7 DEF Role, a, r
<1>9. QED
  BY <1>4, <1>6, <1>7, <1>8

-----------------------------------------------------------------------------
(* A bounded set of numbers has a greatest one, and one that goes on from *)
(* each number to the next is all of 0..n.                                 *)
LEMMA Greatest ==
    ASSUME NEW b \in Nat, NEW C \in SUBSET (0..b), C # {}
    PROVE  \E i \in C : \A j \in C : j =< i
<1> DEFINE Above(i) == (i + 1)..b
           T == {Above(i) : i \in C}
           R == StrictSubsetOrdering(0..b)
<1>1. IsWellFoundedOn(R, FiniteSubsetsOf(0..b))
  BY FS_StrictSubsetOrderingWellFounded
<1>2. T \subseteq FiniteSubsetsOf(0..b) /\ T # {}
  <2>1. \A i \in C : i \in 0..b /\ Above(i) \in SUBSET (0..b) /\ IsFiniteSet(Above(i))
    BY FS_Interval
  <2> QED BY <2>1 DEF FiniteSubsetsOf
<1>3. PICK X \in T : \A Y \in T : ~(<<Y, X>> \in R)
  <2> HIDE DEF R, T
  <2> QED BY <1>1, <1>2, WFMin
<1>4. PICK i \in C : X = Above(i)
  OBVIOUS
<1>5. \A j \in C : j =< i
  <2> SUFFICES ASSUME NEW j \in C, j > i PROVE FALSE
    OBVIOUS
  <2>1. i \in 0..b /\ j \in 0..b
    OBVIOUS
  <2>2. Above(j) \subseteq Above(i) /\ j \in Above(i) /\ j \notin Above(j)
    BY <2>1
  <2>3. <<Above(j), X>> \in R
    BY <2>1, <2>2, <1>4 DEF StrictSubsetOrdering
  <2> QED BY <2>3, <1>3
<1> QED BY <1>5

LEMMA UpTo ==
  ASSUME NEW n \in Nat, NEW S \in SUBSET (0..n), 0 \in S,
         \A i \in 0..(n - 1) : i \in S => i + 1 \in S
  PROVE  S = 0..n
<1> DEFINE C == {j \in S : 0..j \subseteq S}
<1>1. C \in SUBSET (0..n) /\ C # {}
  <2>1. 0..0 = {0}
    OBVIOUS
  <2>2. 0 \in C
    BY <2>1
  <2>3. QED
    BY <2>2
<1>2. PICK i \in C : \A j \in C : j =< i
  <2> HIDE DEF C
  <2>1. QED
    BY <1>1, Greatest
<1>3. CASE i = n
  BY <1>3
<1>4. CASE i \in 0..(n - 1)
  <2>1. i + 1 \in S /\ 0..(i + 1) = 0..i \cup {i + 1}
    BY <1>4
  <2>2. i + 1 \in C
    BY <2>1
  <2>3. QED
    BY <1>2, <1>4, <2>2
<1>5. QED
  BY <1>2, <1>3, <1>4

-----------------------------------------------------------------------------
(* What the peer sends, laid out on the wire.                              *)
(* z holds the elements of x and then those of y.                          *)
InARow(z, x, y) ==
    /\ Len(z) = Len(x) + Len(y)
    /\ \A i \in 1..Len(x) : z[i] = x[i]
-----------------------------------------------------------------------------
(* What the parser has read after every number of arguments.               *)
IsReading(g, s, args, n) ==
    g = [i \in 0..n |-> IF i = 0 THEN Unread ELSE ReadArg(s, g[i - 1], args[i])]

Reading(s, args) == CHOOSE g : IsReading(g, s, args, Len(args))

LEMMA ReadIsLast ==
    \A s, args : Read(s, args) = LET p == Reading(s, args)[Len(args)] IN
                                 [p EXCEPT !.ok = @ /\ p.want = "none"]
BY DEF Read, Reading, IsReading

LEMMA ReadingExists ==
  ASSUME NEW s, NEW args, Len(args) \in Nat
  PROVE  IsReading(Reading(s, args), s, args, Len(args))
<1> DEFINE n == Len(args)
           S == {k \in 0..n : \E g : IsReading(g, s, args, k)}
<1>1. 0 \in S
  <2> DEFINE g == [i \in 0..0 |-> Unread]
  <2>1. g = [i \in 0..0 |-> IF i = 0 THEN Unread ELSE ReadArg(s, g[i - 1], args[i])]
    OBVIOUS
  <2>2. IsReading(g, s, args, 0)
    BY <2>1 DEF IsReading
  <2>3. QED
    BY <2>2
<1>2. ASSUME NEW k \in 0..(n - 1), k \in S  PROVE k + 1 \in S
  <2>1. PICK g : IsReading(g, s, args, k)
    BY <1>2
  <2> DEFINE h == [i \in 0..(k + 1) |-> IF i = k + 1 THEN ReadArg(s, g[k], args[k + 1]) ELSE g[i]]
  <2>2. g[0] = Unread /\ \A i \in 1..k : g[i] = ReadArg(s, g[i - 1], args[i])
    <3>1. \A i \in 0..k : g[i] = IF i = 0 THEN Unread ELSE ReadArg(s, g[i - 1], args[i])
      BY <2>1 DEF IsReading
    <3>2. \A i \in 1..k : i \in 0..k /\ i # 0
      OBVIOUS
    <3>3. 0 \in 0..k
      OBVIOUS
    <3>4. QED
      BY <3>1, <3>2, <3>3
  <2>3. ASSUME NEW i \in 0..(k + 1)
        PROVE  h[i] = IF i = 0 THEN Unread ELSE ReadArg(s, h[i - 1], args[i])
    <3>1. CASE i = 0
      BY <2>2, <3>1
    <3>2. CASE i \in 1..k
      <4>1. h[i] = g[i] /\ h[i - 1] = g[i - 1]
        BY <3>2
      <4>2. QED
        BY <2>2, <3>2, <4>1
    <3>3. CASE i = k + 1
      <4>1. k \in 0..(k + 1) /\ k + 1 \in 0..(k + 1) /\ k # k + 1 /\ i # 0 /\ i - 1 = k
        BY <3>3
      <4>2. h[k + 1] = ReadArg(s, g[k], args[k + 1]) /\ h[k] = g[k]
        BY <4>1
      <4> HIDE DEF h
      <4>3. QED
        BY <3>3, <4>1, <4>2
    <3>4. QED
      BY <3>1, <3>2, <3>3
  <2>4. h = [i \in 0..(k + 1) |-> IF i = 0 THEN Unread ELSE ReadArg(s, h[i - 1], args[i])]
    <3>1. h = [i \in 0..(k + 1) |-> h[i]]
      OBVIOUS
    <3> HIDE DEF h
    <3>2. QED
      BY <2>3, <3>1
  <2>5. IsReading(h, s, args, k + 1) /\ k + 1 \in 0..n
    <3> HIDE DEF h
    <3>1. QED
      BY <2>4 DEF IsReading
  <2>6. QED
    BY <2>5
<1>3. n \in S
  <2> HIDE DEF S
  <2>1. S \in SUBSET (0..n)
    BY DEF S
  <2>2. S = 0..n
    BY <1>1, <1>2, <2>1, UpTo
  <2>3. QED
    BY <2>2
<1>4. QED
  BY <1>3 DEF Reading

LEMMA ReadingStep ==
  ASSUME NEW s, NEW args, Len(args) \in Nat
  PROVE  /\ Reading(s, args)[0] = Unread
         /\ \A i \in 0..(Len(args) - 1) :
               Reading(s, args)[i + 1] = ReadArg(s, Reading(s, args)[i], args[i + 1])
<1> DEFINE g == Reading(s, args)
<1>1. \A i \in 0..Len(args) : g[i] = IF i = 0 THEN Unread ELSE ReadArg(s, g[i - 1], args[i])
  BY ReadingExists DEF IsReading
<1> HIDE DEF g
<1>2. g[0] = Unread
  BY <1>1
<1>3. ASSUME NEW i \in 0..(Len(args) - 1)  PROVE g[i + 1] = ReadArg(s, g[i], args[i + 1])
  <2>1. i + 1 \in 0..Len(args) /\ i + 1 # 0 /\ (i + 1) - 1 = i
    OBVIOUS
  <2>2. g[i + 1] = ReadArg(s, g[(i + 1) - 1], args[i + 1])
    BY <1>1, <2>1
  <2>3. QED
    BY <2>1, <2>2
<1>4. QED
  BY <1>2, <1>3 DEF g

LEMMA UnreadTracks ==
  ASSUME NEW s, NEW args, NEW role, s.others \in Nat
  PROVE  Tracks(s, args, role, Unread, 0)
<1>1. \A r : At(role, r, 0) = {} /\ At(role, r, 0 - 1) = {}
  BY DEF At
<1>2. Pending(args, role, Unread, 0)
  BY DEF Pending, Unread
<1>3. Fitting(s, args, role, 0)
  BY DEF Fitting
<1>4. Cardinality({}) = 0
  BY FS_EmptySet
<1>5. Flagged(args, role, Unread.flags, 0)
  BY <1>1 DEF Flagged, Unread
<1>6. Valued(args, role, Unread.value, 0 - 1)
  BY <1>1 DEF Valued, Unread
<1>7. Others(s, args, role, Unread.other, 0)
  <2>1. Unread.other = <<>> /\ Len(<<>>) = 0 /\ DOMAIN <<>> = {}
    BY DEF Unread
  <2>2. At(role, "other", 0) = {}
    BY <1>1
  <2>3. /\ {(<<>>)[i] : i \in DOMAIN <<>>} = {} /\ {args[i] : i \in At(role, "other", 0)} = {}
    BY <2>1, <2>2
  <2>4. Len(<<>>) = Cardinality(At(role, "other", 0)) /\ Len(<<>>) =< s.others
    <3>1. Cardinality(At(role, "other", 0)) = 0
      BY <1>4, <2>2
    <3>2. 0 =< s.others
      OBVIOUS
    <3>3. QED
      BY <2>1, <3>1, <3>2
  <2>5. QED
    BY <2>1, <2>3, <2>4 DEF Others
<1>8. QED
  BY <1>2, <1>3, <1>5, <1>6, <1>7 DEF Tracks, Said

(* An accepted argument list tracks the roles the parser gave.             *)
LEMMA AcceptedTracks ==
  ASSUME NEW s, IsSyntax(s), NEW args \in Seq(Args), NEW role,
         \A i \in 1..Len(args) : role[i] = Role(s, Reading(s, args)[i - 1], args[i])
  PROVE  /\ Reading(s, args)[Len(args)] \in Parses(s)
         /\ Reading(s, args)[Len(args)].ok = TRUE =>
               Tracks(s, args, role, Reading(s, args)[Len(args)], Len(args))
<1> DEFINE g == Reading(s, args)
           n == Len(args)
           S == {k \in 0..n : /\ g[k] \in Parses(s)
                              /\ g[k].ok = TRUE => Tracks(s, args, role, g[k], k)}
<1>1. n \in Nat
  OBVIOUS
<1>2. g[0] = Unread /\ \A i \in 0..(n - 1) : g[i + 1] = ReadArg(s, g[i], args[i + 1])
  BY <1>1, ReadingStep
<1>3. \A i \in 1..n : role[i] = Role(s, g[i - 1], args[i])
  OBVIOUS
<1> HIDE DEF g
<1>4. 0 \in S
  <2>1. s.others \in Nat
    BY DEF IsSyntax
  <2>2. QED
    BY <1>1, <1>2, <2>1, UnreadTyped, UnreadTracks
<1>5. ASSUME NEW k \in 0..(n - 1), k \in S  PROVE k + 1 \in S
  <2>1. args[k + 1] \in Args /\ g[k + 1] = ReadArg(s, g[k], args[k + 1])
    BY <1>1, <1>2
  <2>2. g[k] \in Parses(s) /\ (g[k].ok = TRUE => Tracks(s, args, role, g[k], k))
    BY <1>5
  <2>3. role[k + 1] = Role(s, g[k], args[k + 1])
    <3>1. k + 1 \in 1..n /\ (k + 1) - 1 = k
      BY <1>1
    <3>2. QED
      BY <1>3, <3>1
  <2>4. g[k].ok \in BOOLEAN
    BY <2>2, Kept
  <2>5. CASE g[k].ok = FALSE
    <3>1. g[k + 1] = g[k]
      BY <2>1, <2>2, <2>5, ReadArgRefused
    <3>2. QED
      BY <1>1, <2>2, <2>5, <3>1
  <2>6. CASE g[k].ok = TRUE
    <3>1. g[k + 1] \in Parses(s)
      BY <2>1, <2>2, <2>6, ReadArgTyped
    <3>2. g[k + 1].ok = TRUE => Tracks(s, args, role, g[k + 1], k + 1)
      BY <2>1, <2>2, <2>3, <2>6, NextRead
    <3>3. QED
      BY <1>1, <3>1, <3>2
  <2>7. QED
    BY <2>4, <2>5, <2>6
<1>6. n \in S
  <2> HIDE DEF S
  <2>1. S \in SUBSET (0..n)
    BY DEF S
  <2>2. S = 0..n
    BY <1>1, <1>4, <1>5, <2>1, UpTo
  <2>3. QED
    BY <1>1, <2>2
<1>7. QED
  BY <1>6 DEF g

(* An argument list with roles the usage text allows is accepted.          *)
LEMMA FittingTracks ==
  ASSUME NEW s, IsSyntax(s), NEW args \in Seq(Args), NEW role,
         \A i \in 1..Len(args) : FitsAt(s, args, role, Len(args), i),
         Cardinality(At(role, "other", Len(args))) =< s.others
  PROVE  /\ Reading(s, args)[Len(args)].ok = TRUE
         /\ Tracks(s, args, role, Reading(s, args)[Len(args)], Len(args))
<1> DEFINE g == Reading(s, args)
           n == Len(args)
           S == {k \in 0..n : /\ g[k] \in Parses(s) /\ g[k].ok = TRUE
                              /\ Tracks(s, args, role, g[k], k)}
<1>1. n \in Nat
  OBVIOUS
<1>2. g[0] = Unread /\ \A i \in 0..(n - 1) : g[i + 1] = ReadArg(s, g[i], args[i + 1])
  BY <1>1, ReadingStep
<1> HIDE DEF g
<1>4. 0 \in S
  <2>1. s.others \in Nat
    BY DEF IsSyntax
  <2>2. Unread.ok = TRUE
    BY DEF Unread
  <2>3. QED
    BY <1>1, <1>2, <2>1, <2>2, UnreadTyped, UnreadTracks
<1>5. ASSUME NEW k \in 0..(n - 1), k \in S  PROVE k + 1 \in S
  <2>1. args[k + 1] \in Args /\ g[k + 1] = ReadArg(s, g[k], args[k + 1])
    BY <1>1, <1>2
  <2>2. g[k] \in Parses(s) /\ g[k].ok = TRUE /\ Tracks(s, args, role, g[k], k)
    BY <1>5
  <2>3. FitsAt(s, args, role, n, k + 1) /\ (k > 0 => FitsAt(s, args, role, n, k))
    BY <1>1
  <2>4. role[k + 1] = Role(s, g[k], args[k + 1]) /\ ReadArg(s, g[k], args[k + 1]).ok = TRUE
    BY <2>2, <2>3, NextFits
  <2>5. Tracks(s, args, role, g[k + 1], k + 1)
    BY <2>1, <2>2, <2>4, NextRead
  <2>6. g[k + 1] \in Parses(s)
    BY <2>1, <2>2, ReadArgTyped
  <2>7. QED
    BY <1>1, <2>1, <2>4, <2>5, <2>6
<1>6. n \in S
  <2> HIDE DEF S
  <2>1. S \in SUBSET (0..n)
    BY DEF S
  <2>2. S = 0..n
    BY <1>1, <1>4, <1>5, <2>1, UpTo
  <2>3. QED
    BY <1>1, <2>2
<1>7. QED
  BY <1>6 DEF g

(* The usage text as a grammar, for all arguments.                         *)
LEMMA FitsMeans ==
  ASSUME NEW s, IsSyntax(s), NEW args \in Seq(Args), NEW role \in [DOMAIN args -> Roles]
  PROVE  Fits(s, args, role) <=>
            /\ \A i \in 1..Len(args) : FitsAt(s, args, role, Len(args), i)
            /\ Len(args) > 0 => role[Len(args)] # "option"
            /\ Cardinality(At(role, "other", Len(args))) =< s.others
<1> DEFINE n == Len(args)
<1>1. n \in Nat /\ DOMAIN args = 1..n
  OBVIOUS
<1>2. {i \in DOMAIN args : role[i] = "other"} = At(role, "other", n)
  BY <1>1 DEF At
<1>3. s.ends \in BOOLEAN
  BY DEF IsSyntax
<1>4. ASSUME Fits(s, args, role)
      PROVE  /\ \A i \in 1..n : FitsAt(s, args, role, n, i)
             /\ n > 0 => role[n] # "option"
             /\ Cardinality(At(role, "other", n)) =< s.others
  <2>1. ASSUME NEW i \in 1..n  PROVE FitsAt(s, args, role, n, i)
    BY <1>1, <1>3, <1>4, <2>1 DEF Fits, FitsAt
  <2>2. n > 0 => role[n] # "option"
    BY <1>1, <1>4 DEF Fits
  <2>3. Cardinality(At(role, "other", n)) =< s.others
    BY <1>2, <1>4 DEF Fits
  <2>4. QED
    BY <2>1, <2>2, <2>3
<1>5. ASSUME /\ \A i \in 1..n : FitsAt(s, args, role, n, i)
             /\ n > 0 => role[n] # "option"
             /\ Cardinality(At(role, "other", n)) =< s.others
      PROVE  Fits(s, args, role)
  <2>1. ASSUME NEW i \in 1..n
        PROVE  /\ role[i] = "value" <=> i > 1 /\ role[i - 1] = "option"
               /\ role[i] = "option" =>
                     /\ args[i] \in DOMAIN s.valued /\ i < n
                     /\ args[i + 1] \in s.valued[args[i]]
               /\ role[i] = "flag" => args[i] \in s.flags
               /\ role[i] = "end" => s.ends = TRUE /\ args[i] = "--"
               /\ role[i] = "other" =>
                     args[i] \notin Dashed \/ \E j \in 1..(i - 1) : role[j] = "end"
               /\ \A j \in 1..(i - 1) : role[j] = "end" => role[i] = "other"
    <3>1. FitsAt(s, args, role, n, i)
      BY <1>5
    <3>2. role[i] = "option" => i < n
      BY <1>1, <1>5
    <3>3. QED
      BY <3>1, <3>2 DEF FitsAt
  <2>2. QED
    BY <1>1, <1>2, <1>5, <2>1 DEF Fits
<1>6. QED
  BY <1>4, <1>5

LEMMA SaidMeans ==
  ASSUME NEW s, NEW args \in Seq(Args), NEW role, NEW p,
         Said(s, args, role, p, Len(args)), Len(args) > 0 => role[Len(args)] # "option"
  PROVE  Says(s, args, role, p)
<1> DEFINE n == Len(args)
<1>1. n \in Nat /\ DOMAIN args = 1..n
  OBVIOUS
<1>2. \A r : {i \in DOMAIN args : role[i] = r} = At(role, r, n)
  BY <1>1 DEF At
<1>3. Valued(args, role, p.value, n)
  BY <1>1, ValuedKept DEF Said
<1>4. /\ Flagged(args, role, p.flags, n) /\ Others(s, args, role, p.other, n)
  BY DEF Said
<1>5. p.flags = {args[i] : i \in {i \in DOMAIN args : role[i] = "flag"}}
  BY <1>2, <1>4 DEF Flagged
<1>6. DOMAIN p.value = {args[i] : i \in {i \in DOMAIN args : role[i] = "option"}}
  BY <1>2, <1>3 DEF Valued
<1>7. \A o \in DOMAIN p.value : \E i \in {i \in DOMAIN args : role[i] = "option"} :
          /\ args[i] = o /\ p.value[o] = args[i + 1]
          /\ \A j \in {j \in DOMAIN args : role[j] = "option"} : args[j] = o => j <= i
  BY <1>2, <1>3 DEF Valued, Latest
<1>8. {p.other[i] : i \in DOMAIN p.other}
         = {args[i] : i \in {i \in DOMAIN args : role[i] = "other"}}
  BY <1>2, <1>4 DEF Others
<1>9. QED
  BY <1>5, <1>6, <1>7, <1>8 DEF Says

(* What Read returns, told without the states in between.                  *)
LEMMA ReadMeans ==
  ASSUME NEW s, IsSyntax(s), NEW args \in Seq(Args)
  PROVE  /\ Read(s, args) \in Parses(s)
         /\ Read(s, args).ok = TRUE =>
               /\ \E role \in [DOMAIN args -> Roles] :
                     Fits(s, args, role) /\ Says(s, args, role, Read(s, args))
               /\ Len(Read(s, args).other) =< s.others
               /\ \A o \in DOMAIN Read(s, args).value :
                     Read(s, args).value[o] \in s.valued[o]
         /\ \A role \in [DOMAIN args -> Roles] : Fits(s, args, role) =>
               Read(s, args).ok = TRUE /\ Says(s, args, role, Read(s, args))
<1> DEFINE n == Len(args)
           p == Reading(s, args)[n]
           r == Read(s, args)
           role_ == [i \in DOMAIN args |-> Role(s, Reading(s, args)[i - 1], args[i])]
<1>1. n \in Nat /\ DOMAIN args = 1..n
  OBVIOUS
<1>2. r = [p EXCEPT !.ok = @ /\ p.want = "none"]
  BY ReadIsLast
<1>3. \A i \in 1..n : role_[i] = Role(s, Reading(s, args)[i - 1], args[i])
  BY <1>1
<1>4. role_ \in [DOMAIN args -> Roles]
  BY DEF Role, Roles
<1> HIDE DEF role_
<1>5. p \in Parses(s) /\ (p.ok = TRUE => Tracks(s, args, role_, p, n))
  BY <1>3, AcceptedTracks
<1>6. ASSUME NEW role \in [DOMAIN args -> Roles], Fits(s, args, role)
      PROVE  p.ok = TRUE /\ Tracks(s, args, role, p, n)
  BY <1>6, FitsMeans, FittingTracks
<1> HIDE DEF p
<1>7. /\ r \in Parses(s) /\ r.value = p.value /\ r.flags = p.flags /\ r.other = p.other
      /\ r.ok = TRUE <=> p.ok = TRUE /\ p.want = "none"
  <2> DEFINE b == p.ok /\ p.want = "none"
  <2>1. p.ok \in BOOLEAN
    BY <1>5, Kept
  <2>2. b \in BOOLEAN /\ (b = TRUE <=> p.ok = TRUE /\ p.want = "none")
    BY <2>1
  <2>3. r = [p EXCEPT !.ok = b]
    BY <1>2
  <2> HIDE DEF b, r
  <2>4. r = [ok |-> b, want |-> p.want, done |-> p.done, value |-> p.value,
             flags |-> p.flags, other |-> p.other]
    <3>1. p \in Parses(s)
      BY <1>5
    <3>2. p = [ok |-> p.ok, want |-> p.want, done |-> p.done, value |-> p.value,
               flags |-> p.flags, other |-> p.other]
      BY <3>1, Kept
    <3>3. QED
      BY <2>3, <3>2
  <2>5. r \in Parses(s)
    BY <1>5, <2>2, <2>4, Kept DEF Parses
  <2>6. r.value = p.value /\ r.flags = p.flags /\ r.other = p.other /\ r.ok = b
    BY <2>4
  <2>7. QED
    BY <2>2, <2>5, <2>6
<1> HIDE DEF r
<1>8. \A role : Says(s, args, role, r) <=> Says(s, args, role, p)
  BY <1>7 DEF Says
<1>9. \A role : Tracks(s, args, role, p, n) /\ p.want = "none" /\ n > 0 =>
         role[n] # "option"
  BY <1>1 DEF Tracks, Pending
<1>10. ASSUME r.ok = TRUE
       PROVE  /\ \E role \in [DOMAIN args -> Roles] :
                     Fits(s, args, role) /\ Says(s, args, role, r)
              /\ Len(r.other) =< s.others
              /\ \A o \in DOMAIN r.value : r.value[o] \in s.valued[o]
  <2>1. Tracks(s, args, role_, p, n) /\ (n > 0 => role_[n] # "option")
    BY <1>5, <1>7, <1>9, <1>10
  <2>2. /\ Fitting(s, args, role_, n) /\ Said(s, args, role_, p, n)
        /\ Others(s, args, role_, p.other, n)
    BY <2>1 DEF Tracks, Said
  <2>3. Fits(s, args, role_)
    <3>1. Cardinality(At(role_, "other", n)) =< s.others
      BY <2>2 DEF Others
    <3>2. \A i \in 1..n : FitsAt(s, args, role_, n, i)
      BY <2>2 DEF Fitting
    <3>3. QED
      BY <1>4, <2>1, <3>1, <3>2, FitsMeans
  <2>4. Says(s, args, role_, p)
    BY <2>1, <2>2, SaidMeans
  <2>5. Len(r.other) =< s.others
    BY <1>7, <2>2 DEF Others
  <2>6. ASSUME NEW o \in DOMAIN r.value  PROVE r.value[o] \in s.valued[o]
    <3>1. PICK i \in DOMAIN args : /\ role_[i] = "option" /\ args[i] = o
                                   /\ p.value[o] = args[i + 1]
      BY <1>7, <2>4, <2>6 DEF Says
    <3>2. args[i + 1] \in s.valued[args[i]]
      BY <2>3, <3>1 DEF Fits
    <3>3. QED
      BY <1>7, <3>1, <3>2
  <2>7. QED
    BY <1>4, <1>8, <2>3, <2>4, <2>5, <2>6
<1>11. ASSUME NEW role \in [DOMAIN args -> Roles], Fits(s, args, role)
       PROVE  r.ok = TRUE /\ Says(s, args, role, r)
  <2>1. p.ok = TRUE /\ Tracks(s, args, role, p, n)
    BY <1>6, <1>11
  <2>2. n > 0 => role[n] # "option"
    BY <1>11, FitsMeans
  <2>3. p.want = "none"
    BY <1>1, <2>1, <2>2 DEF Tracks, Pending
  <2>4. Says(s, args, role, p)
    BY <2>1, <2>2, SaidMeans DEF Tracks
  <2>5. QED
    BY <1>7, <1>8, <2>1, <2>3, <2>4
<1>12. QED
  BY <1>7, <1>10, <1>11 DEF r

(* A parser may ask for more than its table.                               *)
Narrowed(s, p, r, c) ==
    /\ r \in Parses(s) /\ r.ok \in BOOLEAN
    /\ r.value = p.value /\ r.flags = p.flags /\ r.other = p.other
    /\ r.ok = TRUE <=> p.ok = TRUE /\ c

LEMMA AlsoWants ==
  ASSUME NEW s, NEW p \in Parses(s), NEW c \in BOOLEAN, NEW r, r = [p EXCEPT !.ok = @ /\ c]
  PROVE  Narrowed(s, p, r, c = TRUE)
<1> DEFINE b == p.ok /\ c
<1>1. p.ok \in BOOLEAN
  BY Kept
<1>2. b \in BOOLEAN /\ (b = TRUE <=> p.ok = TRUE /\ c = TRUE)
  BY <1>1
<1>3. r = [p EXCEPT !.ok = b]
  OBVIOUS
<1> HIDE DEF b
<1>4. p = [ok |-> p.ok, want |-> p.want, done |-> p.done, value |-> p.value,
           flags |-> p.flags, other |-> p.other]
  BY Kept
<1>5. r = [ok |-> b, want |-> p.want, done |-> p.done, value |-> p.value,
           flags |-> p.flags, other |-> p.other]
  BY <1>3, <1>4
<1>6. r \in Parses(s)
  BY <1>2, <1>5, Kept DEF Parses
<1>7. QED
  BY <1>2, <1>5, <1>6 DEF Narrowed

(* What cli_parse_serve and the others ask for beside their table.         *)
Wants(cmd_, args, p) ==
    CASE cmd_ = "serve" -> "--model" \in DOMAIN p.value
      [] cmd_ = "run" -> p.other # <<>>
      [] cmd_ = "pull" -> args # <<>>
      [] cmd_ = "list" -> TRUE

LEMMA ParsesAre ==
  ASSUME NEW cmd_ \in {"serve", "run", "pull", "list"}, NEW args \in Seq(Args)
  PROVE  LET s == SyntaxOf[cmd_]
             p == Read(s, args)
             r == cli_parse(cmd_, args) IN
         /\ r \in Parses(s) /\ r.ok \in BOOLEAN
         /\ r.value = p.value /\ r.flags = p.flags /\ r.other = p.other
         /\ r.ok = TRUE <=> p.ok = TRUE /\ Wants(cmd_, args, p)
<1> DEFINE s == SyntaxOf[cmd_]
           p == Read(s, args)
           r == cli_parse(cmd_, args)
<1>1. p \in Parses(s) /\ p.ok \in BOOLEAN
  BY Syntaxes, ReadMeans, Kept
<1>2. CASE cmd_ = "serve"
  <2> DEFINE c == "--model" \in DOMAIN p.value
  <2>1. s = ServeSyntax
    BY <1>2 DEF SyntaxOf
  <2>2. r = [p EXCEPT !.ok = @ /\ c]
    BY <1>2, <2>1 DEF cli_parse, cli_parse_serve
  <2> HIDE DEF r, p, s, c
  <2>3. c \in BOOLEAN
    BY Truths DEF c
  <2>4. Wants(cmd_, args, p) <=> c = TRUE
    BY <1>2 DEF Wants, c
  <2>5. Narrowed(s, p, r, c = TRUE)
    BY <1>1, <2>2, <2>3, AlsoWants
  <2>6. QED
    BY <2>4, <2>5 DEF Narrowed, r, p, s
<1>3. CASE cmd_ = "run"
  <2> DEFINE c == p.other # <<>>
  <2>1. s = RunSyntax
    BY <1>3 DEF SyntaxOf
  <2>2. r = [p EXCEPT !.ok = @ /\ c]
    BY <1>3, <2>1 DEF cli_parse, cli_parse_run
  <2> HIDE DEF r, p, s, c
  <2>3. c \in BOOLEAN
    BY Truths DEF c
  <2>4. Wants(cmd_, args, p) <=> c = TRUE
    BY <1>3 DEF Wants, c
  <2>5. Narrowed(s, p, r, c = TRUE)
    BY <1>1, <2>2, <2>3, AlsoWants
  <2>6. QED
    BY <2>4, <2>5 DEF Narrowed, r, p, s
<1>4. CASE cmd_ = "pull"
  <2> DEFINE c == args # <<>>
  <2>1. s = PullSyntax
    BY <1>4 DEF SyntaxOf
  <2>2. r = [p EXCEPT !.ok = @ /\ c]
    BY <1>4, <2>1 DEF cli_parse, cli_parse_pull
  <2> HIDE DEF r, p, s, c
  <2>3. c \in BOOLEAN
    BY Truths DEF c
  <2>4. Wants(cmd_, args, p) <=> c = TRUE
    BY <1>4 DEF Wants, c
  <2>5. Narrowed(s, p, r, c = TRUE)
    BY <1>1, <2>2, <2>3, AlsoWants
  <2>6. QED
    BY <2>4, <2>5 DEF Narrowed, r, p, s
<1>5. CASE cmd_ = "list"
  <2>1. s = ListSyntax
    BY <1>5 DEF SyntaxOf
  <2>2. r = p
    BY <1>5, <2>1 DEF cli_parse, cli_parse_list
  <2>3. Wants(cmd_, args, p)
    BY <1>5 DEF Wants
  <2> HIDE DEF r, p, s
  <2>4. QED
    BY <1>1, <2>2, <2>3 DEF r, p, s
<1>6. QED
  BY <1>2, <1>3, <1>4, <1>5

LEMMA EmptyOrNot == \A w \in Seq(Args) : w # <<>> <=> DOMAIN w # {}
<1> TAKE w \in Seq(Args)
<1>1. Len(w) \in Nat /\ DOMAIN w = 1..Len(w)
  OBVIOUS
<1>2. DOMAIN w = {} => w = <<>>
  <2>1. DOMAIN w = {} => Len(w) = 0
    BY <1>1
  <2>2. QED
    BY <2>1, EmptySeq
<1>3. DOMAIN <<>> = {}
  OBVIOUS
<1>4. QED
  BY <1>2, <1>3

(* Each parser accepts the argument lists the usage text allows, and reads *)
(* from them what they say.                                                *)
THEOREM ParsersFollowUsage ==
    \A cmd_ \in {"serve", "run", "pull", "list"}, args \in Seq(Args) :
        AsUsage(cmd_, args, cli_parse(cmd_, args))
<1> TAKE cmd_ \in {"serve", "run", "pull", "list"}, args \in Seq(Args)
<1> DEFINE s == SyntaxOf[cmd_]
           p == Read(s, args)
           r == cli_parse(cmd_, args)
           readings == {role \in [DOMAIN args -> Roles] :
                           Fits(s, args, role) /\ Complete(cmd_, args, role)}
<1>1. IsSyntax(s)
  BY Syntaxes
<1>2. /\ p.ok = TRUE => \E role \in [DOMAIN args -> Roles] :
                           Fits(s, args, role) /\ Says(s, args, role, p)
      /\ \A role \in [DOMAIN args -> Roles] : Fits(s, args, role) =>
            p.ok = TRUE /\ Says(s, args, role, p)
  BY <1>1, ReadMeans
<1>3. /\ r.ok \in BOOLEAN
      /\ r.value = p.value /\ r.flags = p.flags /\ r.other = p.other
      /\ r.ok = TRUE <=> p.ok = TRUE /\ Wants(cmd_, args, p)
      /\ r.other \in Seq(Args)
  BY ParsesAre, Kept
<1>4. ASSUME NEW role, Says(s, args, role, p)
      PROVE  Complete(cmd_, args, role) <=> Wants(cmd_, args, p)
  <2>1. /\ DOMAIN p.value = {args[i] : i \in {i \in DOMAIN args : role[i] = "option"}}
        /\ {p.other[i] : i \in DOMAIN p.other}
              = {args[i] : i \in {i \in DOMAIN args : role[i] = "other"}}
    BY <1>4 DEF Says
  <2>2. p.other # <<>> <=> DOMAIN p.other # {}
    BY <1>3, EmptyOrNot
  <2>3. p.other # <<>> <=> \E i \in DOMAIN args : role[i] = "other"
    <3>1. DOMAIN p.other # {} <=> {p.other[i] : i \in DOMAIN p.other} # {}
      OBVIOUS
    <3>2. {args[i] : i \in {i \in DOMAIN args : role[i] = "other"}} # {}
             <=> \E i \in DOMAIN args : role[i] = "other"
      OBVIOUS
    <3>3. QED
      BY <2>1, <2>2, <3>1, <3>2
  <2>4. "--model" \in DOMAIN p.value
           <=> \E i \in DOMAIN args : role[i] = "option" /\ args[i] = "--model"
    BY <2>1
  <2>5. QED
    BY <2>3, <2>4 DEF Complete, Wants
<1> HIDE DEF p, r
<1>5. \A role : Says(s, args, role, r) <=> Says(s, args, role, p)
  BY <1>3 DEF Says
<1>6. CASE r.ok = TRUE
  <2>1. PICK role \in [DOMAIN args -> Roles] : Fits(s, args, role) /\ Says(s, args, role, p)
    BY <1>2, <1>3, <1>6
  <2>2. Complete(cmd_, args, role)
    BY <1>3, <1>4, <1>6, <2>1
  <2>3. \E role_ \in readings : Says(s, args, role_, r)
    BY <1>5, <2>1, <2>2
  <2>4. QED
    BY <1>6, <2>3 DEF AsUsage, r
<1>7. CASE r.ok = FALSE
  <2>1. ASSUME NEW role \in readings  PROVE FALSE
    <3>1. p.ok = TRUE /\ Says(s, args, role, p)
      BY <1>2, <2>1
    <3>2. Wants(cmd_, args, p)
      BY <1>4, <2>1, <3>1
    <3>3. QED
      BY <1>3, <1>7, <3>1, <3>2
  <2>2. readings = {}
    BY <2>1
  <2>3. QED
    BY <1>7, <2>2 DEF AsUsage, r
<1>8. QED
  BY <1>3, <1>6, <1>7 DEF r

-----------------------------------------------------------------------------
(* The drivers                                                             *)

Cmds == {"none", "serve", "run", "pull", "list", "--version", "--help", "unknown"}

(* Where the main thread is: before it has a stream, in cli_run_consume,   *)
(* past cleanup.                                                           *)
Early == {"main", "pull", "list", "serve", "run", "sigaction", "engine_init", "post_load",
          "wait", "not_loaded", "stream_create", "create_server", "serve_sigaction",
          "serving", "stopped"}
Loop == {"consume", "stream_next"}
Leaving == {"destroy", "join", "exit", "exited"}
After == {"cleanup", "release"} \cup Leaving
Engined == {"post_load", "wait", "not_loaded", "stream_create", "engine_post", "consume",
            "stream_next", "create_server", "serve_sigaction", "serving", "stopped"}
Unengined == {"main", "pull", "list", "serve", "run", "sigaction", "engine_init"}
Active == {"held", "failing", "ended", "silent"}

(* The type invariant.                                                     *)
Places ==
    /\ argv \in CommandLines /\ cmd \in Cmds
    /\ pc \in Early \cup {"engine_post"} \cup Loop \cup After
    /\ code \in {"running", "0", "1", "130", "_exit_130", "killed"}
    /\ rc \in {0, 1} /\ reason \in Terminals
    /\ handler \in {"default", "run", "serve"} /\ g_srv \in {"NULL", "live"}
    /\ eng \in {"none", "thread", "destroyed"}
    /\ load_state \in {"IDLE", "IN_PROGRESS", "OK", "FAILED"}

Counts ==
    /\ sigints \in Nat /\ g_run_cancel \in Nat /\ g_sigint_count \in Nat
    /\ sent \in Nat /\ printed \in Nat /\ dropped \in Nat /\ held \in Nat

Flags ==
    /\ failed \in BOOLEAN /\ stop_sent \in BOOLEAN /\ cancel_sent \in BOOLEAN
    /\ d \in BOOLEAN /\ grace \in {"none", "running", "passed"}

StreamTypes ==
    /\ q \in [Reqs -> Seq(Chunks)] /\ Len(q[Run]) =< Cap
    /\ cancelled \in [Reqs -> BOOLEAN] /\ refs \in [Reqs -> Int]
    /\ on_push = {} /\ cb = {}
    /\ got \in [Reqs -> Seq(Chunks)]
    /\ phase \in [Reqs -> Phases] /\ shutdown \in BOOLEAN

TypeInv == Places /\ Counts /\ Flags /\ StreamTypes

(* Who holds a reference: cmd_run from stream_create to its release, the   *)
(* engine from the post until it lets go.                                  *)
EngineRef == IF phase[Run] \in Active THEN 1 ELSE 0

Owned ==
    /\ pc \in Early => refs[Run] = 0 /\ phase[Run] = "none"
    /\ pc = "engine_post" => refs[Run] = 1 /\ phase[Run] = "none"
    /\ pc \in Loop => refs[Run] = 1 + EngineRef /\ phase[Run] # "none"
    /\ pc \in {"cleanup", "release"} =>
          \/ refs[Run] = 0 /\ phase[Run] = "none"
          \/ cmd = "run" /\ refs[Run] = 1 + EngineRef
    /\ pc \in Leaving => refs[Run] = EngineRef

(* The engine's thread lives as long as a request it has.                  *)
Engaged ==
    /\ pc \in Engined => eng = "thread"
    /\ phase[Run] \in Active => eng = "thread"
    /\ pc \in {"exit", "exited"} => eng # "thread"
    /\ eng = "destroyed" => pc \in {"exit", "exited"}
    /\ pc \in Unengined => eng = "none"
    /\ code \in {"0", "1", "130"} => pc = "exited"

(* Which command is where.                                                 *)
Placed ==
    /\ pc \in {"run", "sigaction", "stream_create", "engine_post"} \cup Loop => cmd = "run"
    /\ pc \in {"serve", "create_server", "serve_sigaction", "serving", "stopped"} =>
          cmd = "serve"
    /\ pc \in {"engine_init", "post_load", "wait", "not_loaded"} => cmd \in {"run", "serve"}
    /\ pc = "main" => cmd = "none"
    /\ pc = "pull" => cmd = "pull"
    /\ pc = "list" => cmd = "list"
    /\ shutdown = TRUE => cmd = "serve" \/ pc \in {"join", "exit", "exited"}
    /\ pc \notin After => rc = 1

(* What is owed to a Ctrl-C.                                               *)
Pressed ==
    /\ g_run_cancel > 0 \/ stop_sent = TRUE \/ cancel_sent = TRUE \/ reason = "cancelled" =>
          sigints > 0
    /\ cancelled[Run] = TRUE => sigints > 0 \/ shutdown = TRUE
    /\ (\E i \in DOMAIN q[Run] : q[Run][i] = "cancelled") => cancelled[Run] = TRUE
    /\ code \in {"130", "_exit_130", "killed"} => sigints > 0
    /\ pc = "stopped" \/ (cmd = "serve" /\ rc = 0) => sigints > 0

(* What is owed to a failure.                                              *)
Blamed ==
    /\ pc \in After /\ rc = 1 => failed = TRUE
    /\ pc \in {"serve", "run", "pull", "list"} => failed = FALSE
    /\ pc = "not_loaded" => (cmd = "run" /\ g_run_cancel > 0) \/ load_state = "FAILED"
    /\ code = "1" => failed = TRUE
    /\ code = "0" => rc = 0 /\ reason # "cancelled"

(* What the parser read.                                                   *)
Commands == {"serve", "run", "pull", "list"}

Parsed ==
    /\ pc # "main" /\ cmd \in Commands =>
          argv # <<>> /\ opts = cli_parse(cmd, Tail(argv))
    /\ pc # "main" /\ cmd \notin Commands => DOMAIN opts.value = {}
    /\ pc = "main" => opts = Unread
    /\ opts.ok \in BOOLEAN
    /\ opts.ok = FALSE => pc \in {"exit", "exited"} /\ rc = 1
    /\ cmd = "pull" /\ rc = 0 => opts.other # <<>>

(* The chunks of a request, after n tokens: h.                             *)
Shape(h, ph, n) ==
    /\ ph \in {"none", "held", "failing", "silent"} => \A i \in 1..Len(h) : h[i] \notin Terminals
    /\ ph = "none" => Len(h) = 0 /\ n = 0
    /\ ph = "held" => Len(h) = n /\ \A i \in 1..Len(h) : h[i] = "token"
    /\ ph = "failing" => \E i \in 1..Len(h) : h[i] \in Errors
    /\ \A i \in 1..Len(h) : h[i] \in {"stop", "length"} =>
          /\ i = Len(h) /\ ph \in {"ended", "gone"}
          /\ \/ n = i - 1 /\ \A j \in 1..(i - 1) : h[j] = "token"
             \/ \E j \in 1..(i - 1) : h[j] \in Errors
    /\ \A i \in 0..Len(h) : (\A j \in 1..i : h[j] = "token") => i =< n

Shaped == Shape(History(Run), phase[Run], sent)

(* The tokens that cli_run_consume has taken are printed, dropped or held. *)
Counted ==
    /\ pc \in Early \cup {"engine_post"} =>
          got[Run] = <<>> /\ printed = 0 /\ dropped = 0 /\ held = 0
    /\ pc \in Loop =>
          /\ \A i \in 1..Len(got[Run]) : got[Run][i] = "token"
          /\ printed + dropped + held = Len(got[Run])
    /\ d = FALSE => held = 0
    /\ printed + dropped + held =< sent

Budgeted ==
    /\ phase[Run] # "none" =>
          cmd = "run" /\ opts.ok = TRUE /\ params.max_tokens = MaxTokensOf(opts)
    /\ sent > 0 => sent =< MaxTokensOf(opts)

(* A run that ended well.                                                  *)
Finished ==
    pc \in After /\ cmd = "run" /\ rc = 0 /\ reason # "cancelled" =>
        /\ Len(got[Run]) = sent + 1 /\ got[Run][sent + 1] \in {"stop", "length"}
        /\ \A i \in 1..sent : got[Run][i] = "token"
        /\ printed + dropped = sent /\ held = 0
        /\ phase[Run] \in {"ended", "gone"}

Inv ==
    /\ TypeInv /\ Owned /\ Engaged /\ Placed /\ Pressed /\ Blamed /\ Parsed
    /\ Shaped /\ Counted /\ Budgeted /\ Finished

LEMMA InitInv == Init => Inv
<1> SUFFICES ASSUME Init PROVE Inv
  OBVIOUS
<1>1. TypeInv
  <2>1. Places /\ Counts /\ Flags
    BY DEF Init, Places, Counts, Flags, Early, Cmds, Terminals
  <2>2. q = [r \in Reqs |-> <<>>] /\ got = [r \in Reqs |-> <<>>]
    BY DEF Init, GInit, StreamsInit
  <2>3. <<>> \in Seq(Chunks) /\ Len(<<>>) = 0
    OBVIOUS
  <2>4. q \in [Reqs -> Seq(Chunks)] /\ got \in [Reqs -> Seq(Chunks)]
    BY <2>2, <2>3
  <2>5. Len(q[Run]) = 0
    BY <2>2, <2>3, CliRunAssumption
  <2>6. Len(q[Run]) =< Cap
    BY <2>5, StreamCapAssumption
  <2>7. /\ cancelled \in [Reqs -> BOOLEAN] /\ refs \in [Reqs -> Int] /\ on_push = {} /\ cb = {}
        /\ phase \in [Reqs -> Phases] /\ shutdown \in BOOLEAN
    <3>1. cancelled \in [Reqs -> BOOLEAN]
      BY DEF Init, GInit, StreamsInit
    <3>2. refs \in [Reqs -> Int] /\ on_push = {} /\ cb = {}
      BY DEF Init, GInit, StreamsInit
    <3>3. phase \in [Reqs -> Phases]
      BY DEF Init, GInit, Phases
    <3>4. shutdown \in BOOLEAN
      BY DEF Init, GInit
    <3>5. QED
      BY <3>1, <3>2, <3>3, <3>4
  <2>8. StreamTypes
    BY <2>4, <2>6, <2>7 DEF StreamTypes
  <2>9. QED
    BY <2>1, <2>8 DEF TypeInv
<1>2. Owned /\ Engaged /\ Placed /\ Pressed /\ Blamed
  BY CliRunAssumption
     DEF Init, GInit, StreamsInit, Owned, EngineRef, Engaged, Placed, Pressed, Blamed, Early,
         Loop, Leaving, After, Engined, Unengined, Active
<1>3. Parsed
  BY DEF Init, Parsed, Unread
<1>4. Shaped
  <2>1. History(Run) = <<>>
    BY CliRunAssumption DEF Init, GInit, StreamsInit, History
  <2>2. phase[Run] = "none" /\ sent = 0 /\ Len(<<>>) = 0
    BY CliRunAssumption DEF Init, GInit
  <2>3. QED
    BY <2>1, <2>2 DEF Shaped, Shape
<1>5. Counted /\ Budgeted /\ Finished
  BY CliRunAssumption
     DEF Init, GInit, StreamsInit, Counted, Budgeted, Finished, Early, Loop, Leaving, After
<1>6. QED
  BY <1>1, <1>2, <1>3, <1>4, <1>5 DEF Inv

(* What Dispatch does, field by field.                                     *)
LEMMA Dispatched ==
  ASSUME Dispatch, argv \in CommandLines
  PROVE  /\ pc = "main" /\ cmd' \in Cmds
         /\ opts'.ok \in BOOLEAN
         /\ cmd' \in Commands => argv # <<>> /\ opts' = cli_parse(cmd', Tail(argv))
         /\ cmd' \notin Commands => DOMAIN opts'.value = {}
         /\ \/ /\ cmd' \in Commands /\ opts'.ok = TRUE
               /\ pc' = cmd' /\ rc' = rc /\ failed' = FALSE
            \/ /\ pc' = "exit"
               /\ \/ opts'.ok = TRUE /\ rc' = 0 /\ failed' = FALSE /\ cmd' \notin Commands
                  \/ opts'.ok = FALSE /\ rc' = 1 /\ failed' = TRUE
<1> DEFINE args == IF argv = <<>> THEN <<>> ELSE Tail(argv)
<1>1. argv \in Seq(Args)
  BY CliRunAssumption
<1>2. args \in Seq(Args)
  BY <1>1
<1>3. /\ pc = "main" /\ cmd' = cli_command(argv) /\ opts' = cli_parse(cmd', args)
      /\ failed' = ~opts'.ok
      /\ IF cmd' \in Commands /\ opts'.ok THEN pc' = cmd' /\ rc' = rc
         ELSE pc' = "exit" /\ rc' = IF opts'.ok THEN 0 ELSE 1
  BY DEF Dispatch, Goto, Commands
<1>4. cmd' \in Cmds /\ (cmd' \in Commands => argv # <<>>)
  BY <1>3 DEF cli_command, Cmds, Commands
<1>5. CASE cmd' \in Commands
  <2>1. opts'.ok \in BOOLEAN
    BY <1>2, <1>3, <1>5, ParsesAre DEF Commands
  <2>2. QED
    BY <1>3, <1>4, <1>5, <2>1
<1>6. CASE cmd' \notin Commands
  <2> DEFINE b == cmd' # "none" /\ cmd' # "unknown"
  <2>1. opts' = [Unread EXCEPT !.ok = b]
    BY <1>3, <1>6 DEF cli_parse, Commands
  <2>2. b \in BOOLEAN
    OBVIOUS
  <2> HIDE DEF b
  <2>3. opts'.ok = b /\ opts'.value = <<>>
    BY <2>1, <2>2 DEF Unread
  <2>4. DOMAIN opts'.value = {}
    BY <2>3
  <2>5. QED
    BY <1>3, <1>4, <1>6, <2>2, <2>3, <2>4
<1>7. QED
  BY <1>5, <1>6

(* The actions of the main thread that leave the command line and the      *)
(* parameters alone, and all that can happen.                              *)
Quiet ==
    \/ CmdPull \/ CmdList \/ PrepareServe \/ PrepareRun
    \/ InstallRunHandler \/ EngineInit \/ PostLoad \/ WaitLoad
    \/ NotLoaded \/ CreateStream \/ PollCancel \/ ConsumeChunk
    \/ ConsumeNothing \/ CreateServer \/ InstallServeHandler \/ ServerStops
    \/ ForgetServer \/ RestoreSigint \/ ReleaseStream \/ DestroyEngine
    \/ JoinEngine \/ Exit

LEMMA Cases ==
  ASSUME [Next]_vars
  PROVE  \/ Dispatch /\ UNCHANGED <<argv, params>>
         \/ PostGenerate /\ UNCHANGED commandline
         \/ Quiet /\ UNCHANGED <<commandline, params>>
         \/ LoadEnds \/ Generate
         \/ GracePasses /\ UNCHANGED <<commandline, params>>
         \/ Sigint \/ UNCHANGED vars
<1>1. Main \/ EngineThread \/ Clock \/ Sigint \/ UNCHANGED vars
  BY DEF Next
<1>2. CASE Main
  BY <1>2 DEF Main, Quiet
<1>3. EngineThread => LoadEnds \/ Generate
  BY DEF EngineThread
<1>4. Clock => GracePasses /\ UNCHANGED <<commandline, params>>
  BY DEF Clock
<1>5. QED
  BY <1>1, <1>2, <1>3, <1>4

LEMMA DispatchKeeps ==
  ASSUME Dispatch
  PROVE  UNCHANGED <<gvars, code, reason, signals, g_srv, engine, consumer>>
BY DEF Dispatch

(* PostGenerate, field by field.                                           *)
LEMMA PostedKeeps ==
  ASSUME PostGenerate
  PROVE  /\ pc = "engine_post"
         /\ \/ pc' = "consume" /\ failed' = failed
            \/ pc' = "cleanup" /\ failed' = TRUE
         /\ UNCHANGED <<q, cancelled, on_push, cb, got, shutdown, code, rc, reason, signals,
                       g_srv, engine, cancel_sent, grace, held, printed, dropped>>
BY DEF PostGenerate, Goto

LEMMA Posted ==
  ASSUME PostGenerate, phase \in [Reqs -> Phases], refs \in [Reqs -> Int]
  PROVE  /\ \/ /\ refs'[Run] = refs[Run] + 1 /\ phase'[Run] = "held" /\ pc' = "consume"
               /\ params'.max_tokens = MaxTokensOf(opts) /\ failed' = failed
            \/ pc' = "cleanup" /\ failed' = TRUE /\ UNCHANGED <<params, refs, phase, d>>
         /\ phase' \in [Reqs -> Phases] /\ refs' \in [Reqs -> Int]
<1>1. \/ /\ refs' = [refs EXCEPT ![Run] = @ + 1] /\ phase' = [phase EXCEPT ![Run] = "held"]
         /\ params' = [max_tokens |-> MaxTokensOf(opts),
                       sampling |-> run_opts_apply_sampling(opts)]
         /\ pc' = "consume" /\ failed' = failed
      \/ pc' = "cleanup" /\ failed' = TRUE /\ UNCHANGED <<params, refs, phase, d>>
  BY DEF PostGenerate, Goto
<1>2. QED
  BY <1>1, CliRunAssumption DEF Phases

LEMMA PlacesKept ==
  ASSUME Inv, [Next]_vars
  PROVE  Places'
<1>a. Places
  BY DEF Inv, TypeInv
<1>b. argv \in CommandLines
  BY DEF Inv, TypeInv, Places
<1>c. phase \in [Reqs -> Phases] /\ refs \in [Reqs -> Int]
  BY DEF Inv, TypeInv, StreamTypes
<1> USE DEF gvars, streams, signals, engine, consumer, commandline, Goto, Early, Loop,
            Leaving, After, Terminals
<1>1. CASE Dispatch /\ UNCHANGED <<argv, params>>
  BY <1>1, <1>a, <1>b, Dispatched, DispatchKeeps DEF Places, Commands
<1>2. CASE PostGenerate /\ UNCHANGED commandline
  BY <1>2, <1>a, PostedKeeps DEF Places
<1>3. CASE Quiet /\ UNCHANGED <<commandline, params>>
  <2>1. CASE CmdPull
    BY <1>3, <2>1, <1>a DEF Places, CmdPull
  <2>2. CASE CmdList
    BY <1>3, <2>2, <1>a DEF Places, CmdList
  <2>3. CASE PrepareServe
    BY <1>3, <2>3, <1>a DEF Places, PrepareServe
  <2>4. CASE PrepareRun
    BY <1>3, <2>4, <1>a DEF Places, PrepareRun
  <2>5. CASE InstallRunHandler
    BY <1>3, <2>5, <1>a DEF Places, InstallRunHandler
  <2>6. CASE EngineInit
    BY <1>3, <2>6, <1>a DEF Places, EngineInit
  <2>7. CASE PostLoad
    BY <1>3, <2>7, <1>a DEF Places, PostLoad
  <2>8. CASE WaitLoad
    BY <1>3, <2>8, <1>a DEF Places, WaitLoad
  <2>9. CASE NotLoaded
    BY <1>3, <2>9, <1>a DEF Places, NotLoaded
  <2>10. CASE CreateStream
    BY <1>3, <2>10, <1>a DEF Places, CreateStream
  <2>11. CASE PollCancel
    BY <1>3, <2>11, <1>a DEF Places, PollCancel
  <2>12. CASE ConsumeChunk
    BY <1>3, <2>12, <1>a DEF Places, ConsumeChunk, StreamNext, Errors, Chunks
  <2>13. CASE ConsumeNothing
    BY <1>3, <2>13, <1>a DEF Places, ConsumeNothing
  <2>14. CASE CreateServer
    BY <1>3, <2>14, <1>a DEF Places, CreateServer
  <2>15. CASE InstallServeHandler
    BY <1>3, <2>15, <1>a DEF Places, InstallServeHandler
  <2>16. CASE ServerStops
    BY <1>3, <2>16, <1>a DEF Places, ServerStops
  <2>17. CASE ForgetServer
    BY <1>3, <2>17, <1>a DEF Places, ForgetServer
  <2>18. CASE RestoreSigint
    BY <1>3, <2>18, <1>a DEF Places, RestoreSigint
  <2>19. CASE ReleaseStream
    BY <1>3, <2>19, <1>a DEF Places, ReleaseStream
  <2>20. CASE DestroyEngine
    BY <1>3, <2>20, <1>a DEF Places, DestroyEngine
  <2>21. CASE JoinEngine
    BY <1>3, <2>21, <1>a DEF Places, JoinEngine
  <2>22. CASE Exit
    BY <1>3, <2>22, <1>a DEF Places, Exit
  <2>23. QED
    BY <1>3, <2>1, <2>2, <2>3, <2>4, <2>5, <2>6, <2>7, <2>8, <2>9, <2>10, <2>11, <2>12,
       <2>13, <2>14, <2>15, <2>16, <2>17, <2>18, <2>19, <2>20, <2>21, <2>22
       DEF Quiet
<1>4. CASE LoadEnds
  BY <1>4, <1>a DEF Places, LoadEnds
<1>5. CASE Generate
  BY <1>5, <1>a DEF Places, Generate
<1>6. CASE GracePasses /\ UNCHANGED <<commandline, params>>
  BY <1>6, <1>a DEF Places, GracePasses
<1>7. CASE Sigint
  BY <1>7, <1>a DEF Places, Sigint, RunSigintHandler, ServeSigintHandler
<1>8. CASE UNCHANGED vars
  BY <1>8, <1>a DEF Places, vars
<1> HIDE DEF gvars, streams, signals, engine, consumer, commandline, Goto, Early, Loop,
             Leaving, After, Terminals
<1>9. QED
  BY <1>1, <1>2, <1>3, <1>4, <1>5, <1>6, <1>7, <1>8, Cases

LEMMA CountsKept ==
  ASSUME Inv, [Next]_vars
  PROVE  Counts'
<1>a. Counts
  BY DEF Inv, TypeInv
<1> USE DEF gvars, streams, signals, engine, consumer, commandline, Goto
<1>1. CASE Dispatch /\ UNCHANGED <<argv, params>>
  BY <1>1, <1>a DEF Counts, Dispatch
<1>2. CASE PostGenerate /\ UNCHANGED commandline
  BY <1>2, <1>a DEF Counts, PostGenerate
<1>3. CASE Quiet /\ UNCHANGED <<commandline, params>>
  <2>1. CASE CmdPull
    BY <1>3, <2>1, <1>a DEF Counts, CmdPull
  <2>2. CASE CmdList
    BY <1>3, <2>2, <1>a DEF Counts, CmdList
  <2>3. CASE PrepareServe
    BY <1>3, <2>3, <1>a DEF Counts, PrepareServe
  <2>4. CASE PrepareRun
    BY <1>3, <2>4, <1>a DEF Counts, PrepareRun
  <2>5. CASE InstallRunHandler
    BY <1>3, <2>5, <1>a DEF Counts, InstallRunHandler
  <2>6. CASE EngineInit
    BY <1>3, <2>6, <1>a DEF Counts, EngineInit
  <2>7. CASE PostLoad
    BY <1>3, <2>7, <1>a DEF Counts, PostLoad
  <2>8. CASE WaitLoad
    BY <1>3, <2>8, <1>a DEF Counts, WaitLoad
  <2>9. CASE NotLoaded
    BY <1>3, <2>9, <1>a DEF Counts, NotLoaded
  <2>10. CASE CreateStream
    BY <1>3, <2>10, <1>a DEF Counts, CreateStream
  <2>11. CASE PollCancel
    BY <1>3, <2>11, <1>a DEF Counts, PollCancel
  <2>12. CASE ConsumeChunk
    BY <1>3, <2>12, <1>a DEF Counts, ConsumeChunk, PrintToken, Flush
  <2>13. CASE ConsumeNothing
    BY <1>3, <2>13, <1>a DEF Counts, ConsumeNothing
  <2>14. CASE CreateServer
    BY <1>3, <2>14, <1>a DEF Counts, CreateServer
  <2>15. CASE InstallServeHandler
    BY <1>3, <2>15, <1>a DEF Counts, InstallServeHandler
  <2>16. CASE ServerStops
    BY <1>3, <2>16, <1>a DEF Counts, ServerStops
  <2>17. CASE ForgetServer
    BY <1>3, <2>17, <1>a DEF Counts, ForgetServer
  <2>18. CASE RestoreSigint
    BY <1>3, <2>18, <1>a DEF Counts, RestoreSigint
  <2>19. CASE ReleaseStream
    BY <1>3, <2>19, <1>a DEF Counts, ReleaseStream
  <2>20. CASE DestroyEngine
    BY <1>3, <2>20, <1>a DEF Counts, DestroyEngine
  <2>21. CASE JoinEngine
    BY <1>3, <2>21, <1>a DEF Counts, JoinEngine
  <2>22. CASE Exit
    BY <1>3, <2>22, <1>a DEF Counts, Exit
  <2>23. QED
    BY <1>3, <2>1, <2>2, <2>3, <2>4, <2>5, <2>6, <2>7, <2>8, <2>9, <2>10, <2>11, <2>12,
       <2>13, <2>14, <2>15, <2>16, <2>17, <2>18, <2>19, <2>20, <2>21, <2>22
       DEF Quiet
<1>4. CASE LoadEnds
  BY <1>4, <1>a DEF Counts, LoadEnds
<1>5. CASE Generate
  BY <1>5, <1>a DEF Counts, Generate
<1>6. CASE GracePasses /\ UNCHANGED <<commandline, params>>
  BY <1>6, <1>a DEF Counts, GracePasses
<1>7. CASE Sigint
  BY <1>7, <1>a DEF Counts, Sigint, RunSigintHandler, ServeSigintHandler
<1>8. CASE UNCHANGED vars
  BY <1>8, <1>a DEF Counts, vars
<1> HIDE DEF gvars, streams, signals, engine, consumer, commandline, Goto
<1>9. QED
  BY <1>1, <1>2, <1>3, <1>4, <1>5, <1>6, <1>7, <1>8, Cases

LEMMA FlagsKept ==
  ASSUME Inv, [Next]_vars
  PROVE  Flags'
<1>a. Flags
  BY DEF Inv, TypeInv
<1>b. argv \in CommandLines
  BY DEF Inv, TypeInv, Places
<1>c. phase \in [Reqs -> Phases] /\ refs \in [Reqs -> Int]
  BY DEF Inv, TypeInv, StreamTypes
<1> USE DEF gvars, streams, signals, engine, consumer, commandline, Goto
<1>1. CASE Dispatch /\ UNCHANGED <<argv, params>>
  BY <1>1, <1>a, <1>b, Dispatched, DispatchKeeps DEF Flags
<1>2. CASE PostGenerate /\ UNCHANGED commandline
  BY <1>2, <1>a DEF Flags, PostGenerate
<1>3. CASE Quiet /\ UNCHANGED <<commandline, params>>
  <2>1. CASE CmdPull
    BY <1>3, <2>1, <1>a DEF Flags, CmdPull
  <2>2. CASE CmdList
    BY <1>3, <2>2, <1>a DEF Flags, CmdList
  <2>3. CASE PrepareServe
    BY <1>3, <2>3, <1>a DEF Flags, PrepareServe
  <2>4. CASE PrepareRun
    BY <1>3, <2>4, <1>a DEF Flags, PrepareRun
  <2>5. CASE InstallRunHandler
    BY <1>3, <2>5, <1>a DEF Flags, InstallRunHandler
  <2>6. CASE EngineInit
    BY <1>3, <2>6, <1>a DEF Flags, EngineInit
  <2>7. CASE PostLoad
    BY <1>3, <2>7, <1>a DEF Flags, PostLoad
  <2>8. CASE WaitLoad
    BY <1>3, <2>8, <1>a DEF Flags, WaitLoad
  <2>9. CASE NotLoaded
    BY <1>3, <2>9, <1>a DEF Flags, NotLoaded
  <2>10. CASE CreateStream
    BY <1>3, <2>10, <1>a DEF Flags, CreateStream
  <2>11. CASE PollCancel
    BY <1>3, <2>11, <1>a DEF Flags, PollCancel
  <2>12. CASE ConsumeChunk
    BY <1>3, <2>12, <1>a DEF Flags, ConsumeChunk, PrintToken, Flush
  <2>13. CASE ConsumeNothing
    BY <1>3, <2>13, <1>a DEF Flags, ConsumeNothing
  <2>14. CASE CreateServer
    BY <1>3, <2>14, <1>a DEF Flags, CreateServer
  <2>15. CASE InstallServeHandler
    BY <1>3, <2>15, <1>a DEF Flags, InstallServeHandler
  <2>16. CASE ServerStops
    BY <1>3, <2>16, <1>a DEF Flags, ServerStops
  <2>17. CASE ForgetServer
    BY <1>3, <2>17, <1>a DEF Flags, ForgetServer
  <2>18. CASE RestoreSigint
    BY <1>3, <2>18, <1>a DEF Flags, RestoreSigint
  <2>19. CASE ReleaseStream
    BY <1>3, <2>19, <1>a DEF Flags, ReleaseStream
  <2>20. CASE DestroyEngine
    BY <1>3, <2>20, <1>a DEF Flags, DestroyEngine
  <2>21. CASE JoinEngine
    BY <1>3, <2>21, <1>a DEF Flags, JoinEngine
  <2>22. CASE Exit
    BY <1>3, <2>22, <1>a DEF Flags, Exit
  <2>23. QED
    BY <1>3, <2>1, <2>2, <2>3, <2>4, <2>5, <2>6, <2>7, <2>8, <2>9, <2>10, <2>11, <2>12,
       <2>13, <2>14, <2>15, <2>16, <2>17, <2>18, <2>19, <2>20, <2>21, <2>22
       DEF Quiet
<1>4. CASE LoadEnds
  BY <1>4, <1>a DEF Flags, LoadEnds
<1>5. CASE Generate
  BY <1>5, <1>a DEF Flags, Generate
<1>6. CASE GracePasses /\ UNCHANGED <<commandline, params>>
  BY <1>6, <1>a DEF Flags, GracePasses
<1>7. CASE Sigint
  BY <1>7, <1>a DEF Flags, Sigint, RunSigintHandler, ServeSigintHandler
<1>8. CASE UNCHANGED vars
  BY <1>8, <1>a DEF Flags, vars
<1> HIDE DEF gvars, streams, signals, engine, consumer, commandline, Goto
<1>9. QED
  BY <1>1, <1>2, <1>3, <1>4, <1>5, <1>6, <1>7, <1>8, Cases

(* The engine's steps, told one request at a time.                         *)
EngineSteps ==
    \/ SendToken(Run) /\ sent < params.max_tokens /\ sent' = sent + 1
    \/ /\ SendError(Run) \/ SendDone(Run) \/ CutShort(Run) \/ GiveUp(Run) \/ Release(Run)
       /\ sent' = sent

LEMMA Generates ==
  ASSUME Generate
  PROVE  /\ UNCHANGED <<commandline, params, pc, code, rc, reason, failed, signals, g_srv, eng,
                       load_state, consumer>>
         /\ EngineSteps
BY DEF Generate, EngineSteps

(* A step of the engine, seen from the request's counters.                 *)
LEMMA EngineMoves ==
  ASSUME EngineSteps, StreamTypes
  PROVE  /\ UNCHANGED <<on_push, cb, got, shutdown>>
         /\ \/ refs' = refs /\ phase[Run] \in {"held", "failing"} /\ phase'[Run] \in Active
            \/ /\ refs'[Run] = refs[Run] - 1
               /\ phase[Run] \in {"ended", "silent"} /\ phase'[Run] = "gone"
         /\ phase' \in [Reqs -> Phases] /\ refs' \in [Reqs -> Int]
<1>1. /\ phase \in [Reqs -> Phases] /\ refs \in [Reqs -> Int] /\ Run \in Reqs
      /\ cb = {} /\ on_push = {}
  BY CliRunAssumption DEF StreamTypes
<1>2. CASE SendToken(Run)
  BY <1>1, <1>2 DEF SendToken, StreamPush, Active
<1>3. CASE SendError(Run)
  BY <1>1, <1>3 DEF SendError, StreamPush, To, Active, Phases
<1>4. CASE SendDone(Run)
  BY <1>1, <1>4 DEF SendDone, StreamPush, To, Active, Phases
<1>5. CASE CutShort(Run)
  BY <1>1, <1>5 DEF CutShort, StreamFinishCancelled, To, Active, Phases
<1>6. CASE GiveUp(Run)
  BY <1>1, <1>6 DEF GiveUp, streams, To, Active, Phases
<1>7. CASE Release(Run)
  BY <1>1, <1>7 DEF Release, StreamRelease, To, Active, Phases
<1>8. QED
  BY <1>2, <1>3, <1>4, <1>5, <1>6, <1>7 DEF EngineSteps

LEMMA QueueTyped ==
  ASSUME EngineSteps, StreamTypes
  PROVE  /\ q' \in [Reqs -> Seq(Chunks)] /\ Len(q'[Run]) =< Cap
         /\ cancelled' \in [Reqs -> BOOLEAN]
<1>1. /\ q \in [Reqs -> Seq(Chunks)] /\ Len(q[Run]) =< Cap /\ cancelled \in [Reqs -> BOOLEAN]
      /\ Run \in Reqs /\ Cap \in Nat /\ Cap >= 2 /\ Len(q[Run]) \in Nat /\ q[Run] \in Seq(Chunks)
  BY CliRunAssumption, StreamCapAssumption DEF StreamTypes
<1>2. ASSUME NEW c \in Chunks, StreamPush(Run, c)
      PROVE  /\ q' \in [Reqs -> Seq(Chunks)] /\ Len(q'[Run]) =< Cap
             /\ cancelled' \in [Reqs -> BOOLEAN]
  <2>1. q' = [q EXCEPT ![Run] = Append(q[Run], c)] /\ Len(q[Run]) < Cap /\ cancelled' = cancelled
    BY <1>2 DEF StreamPush
  <2>2. Append(q[Run], c) \in Seq(Chunks) /\ Len(Append(q[Run], c)) = Len(q[Run]) + 1
    BY <1>1
  <2>3. q' \in [Reqs -> Seq(Chunks)] /\ Len(q'[Run]) = Len(q[Run]) + 1
    BY <1>1, <2>1, <2>2
  <2>4. QED
    BY <1>1, <2>1, <2>3
<1>3. CASE StreamFinishCancelled(Run)
  <2> DEFINE w == IF Len(q[Run]) < Cap THEN Append(q[Run], "cancelled")
                                       ELSE [q[Run] EXCEPT ![Cap] = "cancelled"]
  <2>1. q' = [q EXCEPT ![Run] = w] /\ cancelled' = [cancelled EXCEPT ![Run] = TRUE]
    BY <1>3 DEF StreamFinishCancelled
  <2>2. w \in Seq(Chunks) /\ Len(w) =< Cap
    <3>1. "cancelled" \in Chunks
      BY DEF Chunks, Terminals
    <3>2. CASE Len(q[Run]) < Cap
      BY <1>1, <3>1, <3>2
    <3>3. CASE ~(Len(q[Run]) < Cap)
      BY <1>1, <3>1, <3>3
    <3>4. QED
      BY <3>2, <3>3
  <2> HIDE DEF w
  <2>3. QED
    BY <1>1, <2>1, <2>2
<1>4. CASE UNCHANGED <<q, cancelled>>
  BY <1>1, <1>4
<1>5. UNCHANGED <<q, cancelled>> \/ StreamFinishCancelled(Run)
         \/ \E c \in Chunks : StreamPush(Run, c)
  BY DEF EngineSteps, SendToken, SendError, SendDone, CutShort, GiveUp, Release, streams,
         StreamRelease, Chunks, Errors, Terminals
<1>6. QED
  BY <1>2, <1>3, <1>4, <1>5

LEMMA StreamTypesKept ==
  ASSUME Inv, [Next]_vars
  PROVE  StreamTypes'
<1>a. StreamTypes
  BY DEF Inv, TypeInv
<1>b. argv \in CommandLines
  BY DEF Inv, TypeInv, Places
<1>c. phase \in [Reqs -> Phases] /\ refs \in [Reqs -> Int] /\ Run \in Reqs
  BY CliRunAssumption DEF Inv, TypeInv, StreamTypes
<1> USE DEF gvars, streams, signals, engine, consumer, commandline, Goto
<1>1. CASE Dispatch /\ UNCHANGED <<argv, params>>
  BY <1>1, <1>a, <1>b, Dispatched, DispatchKeeps DEF StreamTypes
<1>2. CASE PostGenerate /\ UNCHANGED commandline
  BY <1>2, <1>a, <1>c, PostedKeeps, Posted DEF StreamTypes
<1>3. CASE Quiet /\ UNCHANGED <<commandline, params>>
  <2>1. CASE CmdPull
    BY <1>3, <2>1, <1>a, <1>c DEF StreamTypes, CmdPull
  <2>2. CASE CmdList
    BY <1>3, <2>2, <1>a, <1>c DEF StreamTypes, CmdList
  <2>3. CASE PrepareServe
    BY <1>3, <2>3, <1>a, <1>c DEF StreamTypes, PrepareServe
  <2>4. CASE PrepareRun
    BY <1>3, <2>4, <1>a, <1>c DEF StreamTypes, PrepareRun
  <2>5. CASE InstallRunHandler
    BY <1>3, <2>5, <1>a, <1>c DEF StreamTypes, InstallRunHandler
  <2>6. CASE EngineInit
    BY <1>3, <2>6, <1>a, <1>c DEF StreamTypes, EngineInit
  <2>7. CASE PostLoad
    BY <1>3, <2>7, <1>a, <1>c DEF StreamTypes, PostLoad
  <2>8. CASE WaitLoad
    BY <1>3, <2>8, <1>a, <1>c DEF StreamTypes, WaitLoad
  <2>9. CASE NotLoaded
    BY <1>3, <2>9, <1>a, <1>c DEF StreamTypes, NotLoaded
  <2>10. CASE CreateStream
    <3>1. refs' \in [Reqs -> Int]
      BY <1>3, <2>10, <1>c DEF CreateStream
    <3>2. QED
      BY <1>3, <2>10, <1>a, <3>1 DEF CreateStream, StreamTypes
  <2>11. CASE PollCancel
    <3>1. cancelled' \in [Reqs -> BOOLEAN]
      BY <1>3, <2>11, <1>a DEF PollCancel, StreamCancel, StreamTypes
    <3>2. QED
      BY <1>3, <2>11, <1>a, <3>1 DEF PollCancel, StreamCancel, StreamTypes
  <2>12. CASE ConsumeChunk
    <3>1. /\ q[Run] \in Seq(Chunks) /\ got[Run] \in Seq(Chunks) /\ q[Run] # <<>>
          /\ Len(q[Run]) =< Cap /\ Cap \in Nat
      BY <2>12, <1>a, <1>c, StreamCapAssumption DEF ConsumeChunk, StreamNext, StreamTypes
    <3>2. /\ Tail(q[Run]) \in Seq(Chunks) /\ Head(q[Run]) \in Chunks
          /\ Len(Tail(q[Run])) =< Cap /\ Append(got[Run], Head(q[Run])) \in Seq(Chunks)
      BY <3>1
    <3>3. /\ q' = [q EXCEPT ![Run] = Tail(q[Run])]
          /\ got' = [got EXCEPT ![Run] = Append(got[Run], Head(q[Run]))]
          /\ UNCHANGED <<cancelled, refs, on_push, cb, phase, shutdown>>
      BY <2>12 DEF ConsumeChunk, StreamNext
    <3>4. /\ q' \in [Reqs -> Seq(Chunks)] /\ Len(q'[Run]) =< Cap
          /\ got' \in [Reqs -> Seq(Chunks)]
      BY <1>a, <1>c, <3>2, <3>3 DEF StreamTypes
    <3>5. QED
      BY <1>a, <3>3, <3>4 DEF StreamTypes
  <2>13. CASE ConsumeNothing
    BY <1>3, <2>13, <1>a, <1>c DEF StreamTypes, ConsumeNothing
  <2>14. CASE CreateServer
    BY <1>3, <2>14, <1>a, <1>c DEF StreamTypes, CreateServer
  <2>15. CASE InstallServeHandler
    BY <1>3, <2>15, <1>a, <1>c DEF StreamTypes, InstallServeHandler
  <2>16. CASE ServerStops
    BY <1>3, <2>16, <1>a, <1>c DEF StreamTypes, ServerStops
  <2>17. CASE ForgetServer
    BY <1>3, <2>17, <1>a, <1>c DEF StreamTypes, ForgetServer
  <2>18. CASE RestoreSigint
    BY <1>3, <2>18, <1>a, <1>c DEF StreamTypes, RestoreSigint
  <2>19. CASE ReleaseStream
    <3>1. refs' \in [Reqs -> Int]
      BY <1>3, <2>19, <1>c DEF ReleaseStream, StreamRelease
    <3>2. QED
      BY <1>3, <2>19, <1>a, <3>1 DEF ReleaseStream, StreamRelease, StreamTypes
  <2>20. CASE DestroyEngine
    BY <1>3, <2>20, <1>a, <1>c DEF StreamTypes, DestroyEngine
  <2>21. CASE JoinEngine
    BY <1>3, <2>21, <1>a, <1>c DEF StreamTypes, JoinEngine
  <2>22. CASE Exit
    BY <1>3, <2>22, <1>a, <1>c DEF StreamTypes, Exit
  <2>23. QED
    BY <1>3, <2>1, <2>2, <2>3, <2>4, <2>5, <2>6, <2>7, <2>8, <2>9, <2>10, <2>11, <2>12,
       <2>13, <2>14, <2>15, <2>16, <2>17, <2>18, <2>19, <2>20, <2>21, <2>22
       DEF Quiet
<1>4. CASE LoadEnds
  BY <1>4, <1>a, <1>c DEF StreamTypes, LoadEnds
<1>5. CASE Generate
  <2>1. EngineSteps
    BY <1>5, Generates
  <2>2. QED
    BY <1>a, <2>1, EngineMoves, QueueTyped DEF StreamTypes
<1>6. CASE GracePasses /\ UNCHANGED <<commandline, params>>
  BY <1>6, <1>a, <1>c DEF StreamTypes, GracePasses
<1>7. CASE Sigint
  BY <1>7, <1>a, <1>c DEF StreamTypes, Sigint, RunSigintHandler, ServeSigintHandler
<1>8. CASE UNCHANGED vars
  BY <1>8, <1>a, <1>c DEF StreamTypes, vars
<1> HIDE DEF gvars, streams, signals, engine, consumer, commandline, Goto
<1>9. QED
  BY <1>1, <1>2, <1>3, <1>4, <1>5, <1>6, <1>7, <1>8, Cases

LEMMA OwnedKept ==
  ASSUME Inv, [Next]_vars
  PROVE  Owned'
<1>a. Owned
  BY DEF Inv
<1>b. argv \in CommandLines
  BY DEF Inv, TypeInv, Places
<1>c. phase \in [Reqs -> Phases] /\ refs \in [Reqs -> Int] /\ Run \in Reqs
  BY CliRunAssumption DEF Inv, TypeInv, StreamTypes
<1>r. /\ phase[Run] = "none" => EngineRef = 0
      /\ phase'[Run] = "held" => EngineRef' = 1
      /\ phase' = phase => EngineRef' = EngineRef
      /\ EngineRef \in {0, 1} /\ refs[Run] \in Int
  BY <1>c DEF EngineRef, Active
<1>p. pc \in {"engine_post"} \cup Loop => cmd = "run"
  BY DEF Inv, Placed
<1> USE DEF gvars, streams, signals, engine, consumer, commandline, Goto, Early, Loop,
            Leaving, After, Engined, Unengined
<1>1. CASE Dispatch /\ UNCHANGED <<argv, params>>
  BY <1>1, <1>a, <1>b, <1>r, Dispatched, DispatchKeeps DEF Owned, Commands
<1>2. CASE PostGenerate /\ UNCHANGED commandline
  <2>1. refs[Run] = 1 /\ phase[Run] = "none" /\ cmd' = "run" /\ EngineRef = 0
    BY <1>2, <1>a, <1>p, <1>r, PostedKeeps DEF Owned
  <2>2. \/ pc' = "consume" /\ refs'[Run] = 2 /\ phase'[Run] = "held" /\ EngineRef' = 1
        \/ pc' = "cleanup" /\ refs'[Run] = 1 /\ EngineRef' = 0
    <3>1. \/ refs'[Run] = refs[Run] + 1 /\ phase'[Run] = "held" /\ pc' = "consume"
          \/ pc' = "cleanup" /\ refs' = refs /\ phase' = phase
      BY <1>2, <1>c, Posted
    <3>2. QED
      BY <1>r, <2>1, <3>1
  <2>3. QED
    BY <2>1, <2>2 DEF Owned
<1>3. CASE Quiet /\ UNCHANGED <<commandline, params>>
  <2>1. CASE CmdPull
    BY <1>3, <2>1, <1>a, <1>c, <1>r DEF Owned, CmdPull
  <2>2. CASE CmdList
    BY <1>3, <2>2, <1>a, <1>c, <1>r DEF Owned, CmdList
  <2>3. CASE PrepareServe
    BY <1>3, <2>3, <1>a, <1>c, <1>r DEF Owned, PrepareServe
  <2>4. CASE PrepareRun
    BY <1>3, <2>4, <1>a, <1>c, <1>r DEF Owned, PrepareRun
  <2>5. CASE InstallRunHandler
    BY <1>3, <2>5, <1>a, <1>c, <1>r DEF Owned, InstallRunHandler
  <2>6. CASE EngineInit
    BY <1>3, <2>6, <1>a, <1>c, <1>r DEF Owned, EngineInit
  <2>7. CASE PostLoad
    BY <1>3, <2>7, <1>a, <1>c, <1>r DEF Owned, PostLoad
  <2>8. CASE WaitLoad
    BY <1>3, <2>8, <1>a, <1>c, <1>r DEF Owned, WaitLoad
  <2>9. CASE NotLoaded
    BY <1>3, <2>9, <1>a, <1>c, <1>r DEF Owned, NotLoaded
  <2>10. CASE CreateStream
    BY <1>3, <2>10, <1>a, <1>c, <1>r DEF Owned, CreateStream
  <2>11. CASE PollCancel
    BY <1>3, <2>11, <1>a, <1>c, <1>r DEF Owned, PollCancel, StreamCancel
  <2>12. CASE ConsumeChunk
    <3>1. /\ refs' = refs /\ phase' = phase /\ cmd' = cmd /\ pc = "stream_next"
          /\ pc' \in {"consume", "cleanup"}
      BY <1>3, <2>12 DEF ConsumeChunk, StreamNext
    <3>2. refs'[Run] = 1 + EngineRef' /\ phase'[Run] # "none" /\ cmd' = "run"
      BY <3>1, <1>a, <1>p, <1>r DEF Owned
    <3>3. QED
      BY <3>1, <3>2 DEF Owned
  <2>13. CASE ConsumeNothing
    <3>1. /\ refs' = refs /\ phase' = phase /\ cmd' = cmd /\ pc = "stream_next"
          /\ pc' \in {"consume", "cleanup"}
      BY <1>3, <2>13 DEF ConsumeNothing
    <3>2. refs'[Run] = 1 + EngineRef' /\ phase'[Run] # "none" /\ cmd' = "run"
      BY <3>1, <1>a, <1>p, <1>r DEF Owned
    <3>3. QED
      BY <3>1, <3>2 DEF Owned
  <2>14. CASE CreateServer
    BY <1>3, <2>14, <1>a, <1>c, <1>r DEF Owned, CreateServer
  <2>15. CASE InstallServeHandler
    BY <1>3, <2>15, <1>a, <1>c, <1>r DEF Owned, InstallServeHandler
  <2>16. CASE ServerStops
    BY <1>3, <2>16, <1>a, <1>c, <1>r DEF Owned, ServerStops
  <2>17. CASE ForgetServer
    BY <1>3, <2>17, <1>a, <1>c, <1>r DEF Owned, ForgetServer
  <2>18. CASE RestoreSigint
    BY <1>3, <2>18, <1>a, <1>c, <1>r DEF Owned, RestoreSigint
  <2>19. CASE ReleaseStream
    BY <1>3, <2>19, <1>a, <1>c, <1>r DEF Owned, ReleaseStream, StreamRelease
  <2>20. CASE DestroyEngine
    BY <1>3, <2>20, <1>a, <1>c, <1>r DEF Owned, DestroyEngine
  <2>21. CASE JoinEngine
    BY <1>3, <2>21, <1>a, <1>c, <1>r DEF Owned, JoinEngine
  <2>22. CASE Exit
    BY <1>3, <2>22, <1>a, <1>c, <1>r DEF Owned, Exit
  <2>23. QED
    BY <1>3, <2>1, <2>2, <2>3, <2>4, <2>5, <2>6, <2>7, <2>8, <2>9, <2>10, <2>11, <2>12,
       <2>13, <2>14, <2>15, <2>16, <2>17, <2>18, <2>19, <2>20, <2>21, <2>22
       DEF Quiet
<1>4. CASE LoadEnds
  BY <1>4, <1>a, <1>c, <1>r DEF Owned, LoadEnds
<1>5. CASE Generate
  <2>1. EngineSteps /\ StreamTypes /\ pc' = pc /\ cmd' = cmd /\ eng' = eng /\ code' = code
    BY <1>5, Generates DEF Inv, TypeInv
  <2>2. /\ UNCHANGED <<on_push, cb, got, shutdown>>
        /\ \/ refs' = refs /\ phase[Run] \in {"held", "failing"} /\ phase'[Run] \in Active
           \/ /\ refs'[Run] = refs[Run] - 1
              /\ phase[Run] \in {"ended", "silent"} /\ phase'[Run] = "gone"
    BY <2>1, EngineMoves
  <2>3. refs'[Run] = refs[Run] + (EngineRef' - EngineRef) /\ phase[Run] # "none"
    BY <1>c, <2>2 DEF EngineRef, Active
  <2>4. phase'[Run] # "none" /\ EngineRef' \in {0, 1}
    BY <2>2 DEF EngineRef, Active
  <2>5. QED
    BY <1>a, <1>c, <1>r, <2>1, <2>3, <2>4 DEF Owned
<1>6. CASE GracePasses /\ UNCHANGED <<commandline, params>>
  BY <1>6, <1>a, <1>c, <1>r DEF Owned, GracePasses
<1>7. CASE Sigint
  BY <1>7, <1>a, <1>c, <1>r DEF Owned, Sigint, RunSigintHandler, ServeSigintHandler
<1>8. CASE UNCHANGED vars
  BY <1>8, <1>a, <1>c, <1>r DEF Owned, vars
<1> HIDE DEF gvars, streams, signals, engine, consumer, commandline, Goto, Early, Loop,
             Leaving, After, Engined, Unengined
<1>9. QED
  BY <1>1, <1>2, <1>3, <1>4, <1>5, <1>6, <1>7, <1>8, Cases

LEMMA EngagedKept ==
  ASSUME Inv, [Next]_vars
  PROVE  Engaged'
<1>a. Engaged
  BY DEF Inv
<1>b. argv \in CommandLines
  BY DEF Inv, TypeInv, Places
<1>c. phase \in [Reqs -> Phases] /\ refs \in [Reqs -> Int] /\ Run \in Reqs
  BY CliRunAssumption DEF Inv, TypeInv, StreamTypes
<1> USE DEF gvars, streams, signals, engine, consumer, commandline, Goto, Early, Loop,
            Leaving, After, Engined, Unengined
<1>1. CASE Dispatch /\ UNCHANGED <<argv, params>>
  BY <1>1, <1>a, <1>b, Dispatched, DispatchKeeps DEF Engaged, Commands
<1>2. CASE PostGenerate /\ UNCHANGED commandline
  BY <1>2, <1>2, <1>a, <1>c, PostedKeeps, Posted DEF Engaged
<1>3. CASE Quiet /\ UNCHANGED <<commandline, params>>
  <2>1. CASE CmdPull
    BY <1>3, <2>1, <1>a, <1>c DEF Engaged, CmdPull
  <2>2. CASE CmdList
    BY <1>3, <2>2, <1>a, <1>c DEF Engaged, CmdList
  <2>3. CASE PrepareServe
    BY <1>3, <2>3, <1>a, <1>c DEF Engaged, PrepareServe
  <2>4. CASE PrepareRun
    BY <1>3, <2>4, <1>a, <1>c DEF Engaged, PrepareRun
  <2>5. CASE InstallRunHandler
    BY <1>3, <2>5, <1>a, <1>c DEF Engaged, InstallRunHandler
  <2>6. CASE EngineInit
    BY <1>3, <2>6, <1>a, <1>c DEF Engaged, EngineInit
  <2>7. CASE PostLoad
    BY <1>3, <2>7, <1>a, <1>c DEF Engaged, PostLoad
  <2>8. CASE WaitLoad
    BY <1>3, <2>8, <1>a, <1>c DEF Engaged, WaitLoad
  <2>9. CASE NotLoaded
    BY <1>3, <2>9, <1>a, <1>c DEF Engaged, NotLoaded
  <2>10. CASE CreateStream
    BY <1>3, <2>10, <1>a, <1>c DEF Engaged, CreateStream
  <2>11. CASE PollCancel
    BY <1>3, <2>11, <1>a, <1>c DEF Engaged, PollCancel, StreamCancel
  <2>12. CASE ConsumeChunk
    BY <1>3, <2>12, <1>a, <1>c DEF Engaged, ConsumeChunk, StreamNext
  <2>13. CASE ConsumeNothing
    BY <1>3, <2>13, <1>a, <1>c DEF Engaged, ConsumeNothing
  <2>14. CASE CreateServer
    BY <1>3, <2>14, <1>a, <1>c DEF Engaged, CreateServer
  <2>15. CASE InstallServeHandler
    BY <1>3, <2>15, <1>a, <1>c DEF Engaged, InstallServeHandler
  <2>16. CASE ServerStops
    BY <1>3, <2>16, <1>a, <1>c DEF Engaged, ServerStops
  <2>17. CASE ForgetServer
    BY <1>3, <2>17, <1>a, <1>c DEF Engaged, ForgetServer
  <2>18. CASE RestoreSigint
    BY <1>3, <2>18, <1>a, <1>c DEF Engaged, RestoreSigint
  <2>19. CASE ReleaseStream
    BY <1>3, <2>19, <1>a, <1>c DEF Engaged, ReleaseStream
  <2>20. CASE DestroyEngine
    BY <1>3, <2>20, <1>a, <1>c DEF Engaged, DestroyEngine
  <2>21. CASE JoinEngine
    BY <1>3, <2>21, <1>a, <1>c DEF Engaged, JoinEngine, Active
  <2>22. CASE Exit
    BY <1>3, <2>22, <1>a, <1>c DEF Engaged, Exit
  <2>23. QED
    BY <1>3, <2>1, <2>2, <2>3, <2>4, <2>5, <2>6, <2>7, <2>8, <2>9, <2>10, <2>11, <2>12,
       <2>13, <2>14, <2>15, <2>16, <2>17, <2>18, <2>19, <2>20, <2>21, <2>22
       DEF Quiet
<1>4. CASE LoadEnds
  BY <1>4, <1>a, <1>c DEF Engaged, LoadEnds
<1>5. CASE Generate
  <2>1. EngineSteps /\ StreamTypes /\ pc' = pc /\ cmd' = cmd /\ eng' = eng /\ code' = code
    BY <1>5, Generates DEF Inv, TypeInv
  <2>2. /\ UNCHANGED <<on_push, cb, got, shutdown>>
        /\ \/ refs' = refs /\ phase[Run] \in {"held", "failing"} /\ phase'[Run] \in Active
           \/ /\ refs'[Run] = refs[Run] - 1
              /\ phase[Run] \in {"ended", "silent"} /\ phase'[Run] = "gone"
    BY <2>1, EngineMoves
  <2>3. QED
    BY <1>a, <1>c, <2>1, <2>2 DEF Engaged, Active
<1>6. CASE GracePasses /\ UNCHANGED <<commandline, params>>
  BY <1>6, <1>a, <1>c DEF Engaged, GracePasses
<1>7. CASE Sigint
  BY <1>7, <1>a, <1>c DEF Engaged, Sigint, RunSigintHandler, ServeSigintHandler
<1>8. CASE UNCHANGED vars
  BY <1>8, <1>a, <1>c DEF Engaged, vars
<1> HIDE DEF gvars, streams, signals, engine, consumer, commandline, Goto, Early, Loop,
             Leaving, After, Engined, Unengined
<1>9. QED
  BY <1>1, <1>2, <1>3, <1>4, <1>5, <1>6, <1>7, <1>8, Cases

LEMMA PlacedKept ==
  ASSUME Inv, [Next]_vars
  PROVE  Placed'
<1>a. Placed
  BY DEF Inv
<1>e. shutdown \in BOOLEAN
  BY DEF Inv, TypeInv, StreamTypes
<1>b. argv \in CommandLines
  BY DEF Inv, TypeInv, Places
<1>c. phase \in [Reqs -> Phases] /\ refs \in [Reqs -> Int] /\ Run \in Reqs
  BY CliRunAssumption DEF Inv, TypeInv, StreamTypes
<1> USE DEF gvars, streams, signals, engine, consumer, commandline, Goto, Early, Loop,
            Leaving, After
<1>1. CASE Dispatch /\ UNCHANGED <<argv, params>>
  <2>1. shutdown' = FALSE
    BY <1>1, <1>a, <1>b, <1>e, Dispatched, DispatchKeeps DEF Placed
  <2>2. pc = "main" /\ rc = 1
    BY <1>1, <1>a, <1>b, Dispatched DEF Placed
  <2>3. /\ pc' \in Commands \cup {"exit"} /\ (pc' \in Commands => cmd' = pc' /\ rc' = rc)
    BY <1>1, <1>b, Dispatched DEF Commands
  <2>4. QED
    BY <2>1, <2>2, <2>3 DEF Placed, Commands
<1>2. CASE PostGenerate /\ UNCHANGED commandline
  BY <1>2, <1>2, <1>a, PostedKeeps DEF Placed
<1>3. CASE Quiet /\ UNCHANGED <<commandline, params>>
  <2>1. CASE CmdPull
    BY <1>3, <2>1, <1>a DEF Placed, CmdPull
  <2>2. CASE CmdList
    BY <1>3, <2>2, <1>a DEF Placed, CmdList
  <2>3. CASE PrepareServe
    BY <1>3, <2>3, <1>a DEF Placed, PrepareServe
  <2>4. CASE PrepareRun
    BY <1>3, <2>4, <1>a DEF Placed, PrepareRun
  <2>5. CASE InstallRunHandler
    BY <1>3, <2>5, <1>a DEF Placed, InstallRunHandler
  <2>6. CASE EngineInit
    BY <1>3, <2>6, <1>a DEF Placed, EngineInit
  <2>7. CASE PostLoad
    BY <1>3, <2>7, <1>a DEF Placed, PostLoad
  <2>8. CASE WaitLoad
    BY <1>3, <2>8, <1>a DEF Placed, WaitLoad
  <2>9. CASE NotLoaded
    BY <1>3, <2>9, <1>a DEF Placed, NotLoaded
  <2>10. CASE CreateStream
    BY <1>3, <2>10, <1>a DEF Placed, CreateStream
  <2>11. CASE PollCancel
    BY <1>3, <2>11, <1>a DEF Placed, PollCancel
  <2>12. CASE ConsumeChunk
    BY <1>3, <2>12, <1>a DEF Placed, ConsumeChunk
  <2>13. CASE ConsumeNothing
    BY <1>3, <2>13, <1>a DEF Placed, ConsumeNothing
  <2>14. CASE CreateServer
    BY <1>3, <2>14, <1>a DEF Placed, CreateServer
  <2>15. CASE InstallServeHandler
    BY <1>3, <2>15, <1>a DEF Placed, InstallServeHandler
  <2>16. CASE ServerStops
    BY <1>3, <2>16, <1>a DEF Placed, ServerStops
  <2>17. CASE ForgetServer
    BY <1>3, <2>17, <1>a DEF Placed, ForgetServer
  <2>18. CASE RestoreSigint
    BY <1>3, <2>18, <1>a DEF Placed, RestoreSigint
  <2>19. CASE ReleaseStream
    BY <1>3, <2>19, <1>a DEF Placed, ReleaseStream
  <2>20. CASE DestroyEngine
    BY <1>3, <2>20, <1>a DEF Placed, DestroyEngine
  <2>21. CASE JoinEngine
    BY <1>3, <2>21, <1>a DEF Placed, JoinEngine
  <2>22. CASE Exit
    BY <1>3, <2>22, <1>a DEF Placed, Exit
  <2>23. QED
    BY <1>3, <2>1, <2>2, <2>3, <2>4, <2>5, <2>6, <2>7, <2>8, <2>9, <2>10, <2>11, <2>12,
       <2>13, <2>14, <2>15, <2>16, <2>17, <2>18, <2>19, <2>20, <2>21, <2>22
       DEF Quiet
<1>4. CASE LoadEnds
  BY <1>4, <1>a DEF Placed, LoadEnds
<1>5. CASE Generate
  <2>1. EngineSteps /\ StreamTypes /\ pc' = pc /\ cmd' = cmd /\ eng' = eng /\ code' = code
    BY <1>5, Generates DEF Inv, TypeInv
  <2>2. /\ UNCHANGED <<on_push, cb, got, shutdown>>
        /\ \/ refs' = refs /\ phase[Run] \in {"held", "failing"} /\ phase'[Run] \in Active
           \/ /\ refs'[Run] = refs[Run] - 1
              /\ phase[Run] \in {"ended", "silent"} /\ phase'[Run] = "gone"
    BY <2>1, EngineMoves
  <2>3. QED
    BY <1>5, <1>a, <2>2, Generates DEF Placed
<1>6. CASE GracePasses /\ UNCHANGED <<commandline, params>>
  BY <1>6, <1>a DEF Placed, GracePasses
<1>7. CASE Sigint
  BY <1>7, <1>a DEF Placed, Sigint, RunSigintHandler, ServeSigintHandler
<1>8. CASE UNCHANGED vars
  BY <1>8, <1>a DEF Placed, vars
<1> HIDE DEF gvars, streams, signals, engine, consumer, commandline, Goto, Early, Loop,
             Leaving, After
<1>9. QED
  BY <1>1, <1>2, <1>3, <1>4, <1>5, <1>6, <1>7, <1>8, Cases

(* Only a push or a cut changes the queue; a cut leaves its mark.          *)
LEMMA CancelledMarks ==
  ASSUME EngineSteps, StreamTypes
  PROVE  /\ (\E i \in DOMAIN q'[Run] : q'[Run][i] = "cancelled") =>
              \/ cancelled'[Run] = TRUE
              \/ UNCHANGED cancelled /\ \E i \in DOMAIN q[Run] : q[Run][i] = "cancelled"
         /\ cancelled'[Run] = TRUE => cancelled[Run] = TRUE \/ shutdown = TRUE
         /\ cancelled[Run] = TRUE => cancelled'[Run] = TRUE
<1>1. /\ q \in [Reqs -> Seq(Chunks)] /\ cancelled \in [Reqs -> BOOLEAN] /\ shutdown \in BOOLEAN
      /\ Run \in Reqs /\ q[Run] \in Seq(Chunks) /\ Len(q[Run]) \in Nat
  BY CliRunAssumption DEF StreamTypes
<1>2. ASSUME NEW c \in Chunks \ {"cancelled"}, StreamPush(Run, c)
      PROVE  /\ UNCHANGED cancelled
             /\ \A i \in DOMAIN q'[Run] : q'[Run][i] = "cancelled" =>
                  i \in DOMAIN q[Run] /\ q[Run][i] = "cancelled"
  <2>1. q'[Run] = Append(q[Run], c) /\ UNCHANGED cancelled
    BY <1>1, <1>2 DEF StreamPush
  <2>2. QED
    BY <1>1, <2>1
<1>3. CASE \E c \in Chunks \ {"cancelled"} : StreamPush(Run, c)
  BY <1>2, <1>3
<1>4. CASE CutShort(Run)
  BY <1>1, <1>4 DEF CutShort, StreamFinishCancelled
<1>5. CASE UNCHANGED <<q, cancelled>>
  BY <1>5
<1>6. QED
  BY <1>3, <1>4, <1>5 DEF EngineSteps, SendToken, SendError, SendDone, GiveUp, Release, streams,
     StreamRelease, Chunks, Errors, Terminals

LEMMA PressedKept ==
  ASSUME Inv, [Next]_vars
  PROVE  Pressed'
<1>a. Pressed
  BY DEF Inv
<1>q. /\ Placed /\ shutdown \in BOOLEAN /\ cancelled \in [Reqs -> BOOLEAN] /\ rc \in {0, 1}
      /\ stop_sent \in BOOLEAN /\ cancel_sent \in BOOLEAN /\ g_run_cancel \in Nat /\ sigints \in Nat
      /\ q \in [Reqs -> Seq(Chunks)]
  BY DEF Inv, TypeInv, StreamTypes, Flags, Counts, Places
<1>b. argv \in CommandLines
  BY DEF Inv, TypeInv, Places
<1>c. phase \in [Reqs -> Phases] /\ refs \in [Reqs -> Int] /\ Run \in Reqs
  BY CliRunAssumption DEF Inv, TypeInv, StreamTypes
<1> USE DEF gvars, streams, signals, engine, consumer, commandline, Goto
<1>1. CASE Dispatch /\ UNCHANGED <<argv, params>>
  <2>1. /\ UNCHANGED <<cancelled, shutdown, code, sigints, g_run_cancel, stop_sent,
                      cancel_sent, reason, q>>
        /\ pc' # "stopped" /\ (cmd' = "serve" => rc' # 0)
    <3>1. UNCHANGED <<cancelled, shutdown, code, sigints, g_run_cancel, stop_sent, cancel_sent,
                      reason, q>>
      BY <1>1, DispatchKeeps
    <3>2. /\ pc = "main"
          /\ \/ pc' \in Commands /\ rc' = rc
             \/ pc' = "exit" /\ cmd' \notin Commands
             \/ pc' = "exit" /\ rc' = 1
      BY <1>1, <1>b, Dispatched DEF Commands
    <3>3. rc = 1
      BY <3>2, <1>q DEF Placed, After, Leaving
    <3>4. QED
      BY <3>1, <3>2, <3>3 DEF Commands
  <2>2. QED
    BY <2>1, <1>a DEF Pressed
<1>2. CASE PostGenerate /\ UNCHANGED commandline
  <2>1. /\ UNCHANGED <<cancelled, shutdown, code, sigints, g_run_cancel, stop_sent,
                      cancel_sent, reason, q, cmd, rc>>
        /\ pc' # "stopped"
    BY <1>2, PostedKeeps
  <2>2. QED
    BY <2>1, <1>a DEF Pressed
<1>3. CASE Quiet /\ UNCHANGED <<commandline, params>>
  <2>1. CASE CmdPull
    BY <1>3, <2>1, <1>a, <1>q DEF Pressed, CmdPull, Placed
  <2>2. CASE CmdList
    BY <1>3, <2>2, <1>a, <1>q DEF Pressed, CmdList, Placed
  <2>3. CASE PrepareServe
    BY <1>3, <2>3, <1>a, <1>q DEF Pressed, PrepareServe
  <2>4. CASE PrepareRun
    BY <1>3, <2>4, <1>a, <1>q DEF Pressed, PrepareRun
  <2>5. CASE InstallRunHandler
    BY <1>3, <2>5, <1>a, <1>q DEF Pressed, InstallRunHandler
  <2>6. CASE EngineInit
    BY <1>3, <2>6, <1>a, <1>q DEF Pressed, EngineInit
  <2>7. CASE PostLoad
    BY <1>3, <2>7, <1>a, <1>q DEF Pressed, PostLoad
  <2>8. CASE WaitLoad
    BY <1>3, <2>8, <1>a, <1>q DEF Pressed, WaitLoad
  <2>9. CASE NotLoaded
    BY <1>3, <2>9, <1>a, <1>q DEF Pressed, NotLoaded
  <2>10. CASE CreateStream
    BY <1>3, <2>10, <1>a, <1>q DEF Pressed, CreateStream
  <2>11. CASE PollCancel
    <3>1. /\ UNCHANGED <<shutdown, code, sigints, g_run_cancel, stop_sent, reason, q, cmd, rc>>
          /\ pc' # "stopped"
          /\ \/ g_run_cancel > 0
             \/ UNCHANGED <<cancelled, cancel_sent>>
      BY <1>3, <2>11 DEF PollCancel, StreamCancel
    <3>2. cancelled[Run] = TRUE => cancelled'[Run] = TRUE
      BY <1>3, <2>11, <1>c, <1>q DEF PollCancel, StreamCancel
    <3>3. QED
      BY <3>1, <3>2, <1>a DEF Pressed
  <2>12. CASE ConsumeChunk
    <3>1. /\ pc = "stream_next" /\ cmd = "run" /\ q[Run] # <<>> /\ q'[Run] = Tail(q[Run])
          /\ q[Run] \in Seq(Chunks) /\ q'[Run] \in Seq(Chunks)
      <4>1. /\ pc = "stream_next" /\ q[Run] # <<>> /\ q' = [q EXCEPT ![Run] = Tail(q[Run])]
            /\ cmd' = cmd
        BY <1>3, <2>12 DEF ConsumeChunk, StreamNext
      <4>2. q[Run] \in Seq(Chunks)
        BY <1>c, <1>q
      <4>3. cmd = "run"
        BY <4>1, <1>q DEF Placed, Loop
      <4>4. QED
        BY <4>1, <4>2, <4>3, <1>c, <1>q
    <3>2. shutdown # TRUE
      BY <3>1, <1>q DEF Placed
    <3>3. /\ UNCHANGED <<cancelled, shutdown, code, sigints, g_run_cancel, stop_sent,
                      cancel_sent, cmd>>
          /\ \/ reason' = reason /\ rc' \in {rc, 1}
             \/ reason' = Head(q[Run]) /\ rc' = 0
          /\ pc' \in {"consume", "cleanup"}
      BY <1>3, <2>12 DEF ConsumeChunk, StreamNext
    <3>4. Head(q[Run]) = "cancelled" => sigints > 0
      <4>1. Head(q[Run]) = q[Run][1] /\ 1 \in DOMAIN q[Run]
        BY <3>1
      <4>2. QED
        BY <3>2, <4>1, <1>a DEF Pressed
    <3>5. (\E i \in DOMAIN q'[Run] : q'[Run][i] = "cancelled") =>
            \E i \in DOMAIN q[Run] : q[Run][i] = "cancelled"
      <4>1. ASSUME NEW i \in DOMAIN q'[Run], q'[Run][i] = "cancelled"
            PROVE  i + 1 \in DOMAIN q[Run] /\ q[Run][i + 1] = "cancelled"
        BY <3>1, <4>1
      <4>2. QED
        BY <4>1
    <3>6. QED
      BY <3>1, <3>3, <3>4, <3>5, <1>a DEF Pressed
  <2>13. CASE ConsumeNothing
    BY <1>3, <2>13, <1>a, <1>q DEF Pressed, ConsumeNothing
  <2>14. CASE CreateServer
    BY <1>3, <2>14, <1>a, <1>q DEF Pressed, CreateServer
  <2>15. CASE InstallServeHandler
    BY <1>3, <2>15, <1>a, <1>q DEF Pressed, InstallServeHandler
  <2>16. CASE ServerStops
    BY <1>3, <2>16, <1>a, <1>q DEF Pressed, ServerStops
  <2>17. CASE ForgetServer
    BY <1>3, <2>17, <1>a, <1>q DEF Pressed, ForgetServer
  <2>18. CASE RestoreSigint
    BY <1>3, <2>18, <1>a, <1>q DEF Pressed, RestoreSigint
  <2>19. CASE ReleaseStream
    BY <1>3, <2>19, <1>a, <1>q DEF Pressed, ReleaseStream, StreamRelease
  <2>20. CASE DestroyEngine
    BY <1>3, <2>20, <1>a, <1>q DEF Pressed, DestroyEngine
  <2>21. CASE JoinEngine
    BY <1>3, <2>21, <1>a, <1>q DEF Pressed, JoinEngine
  <2>22. CASE Exit
    BY <1>3, <2>22, <1>a, <1>q DEF Pressed, Exit
  <2>23. QED
    BY <1>3, <2>1, <2>2, <2>3, <2>4, <2>5, <2>6, <2>7, <2>8, <2>9, <2>10, <2>11, <2>12,
       <2>13, <2>14, <2>15, <2>16, <2>17, <2>18, <2>19, <2>20, <2>21, <2>22
       DEF Quiet
<1>4. CASE LoadEnds
  BY <1>4, <1>a, <1>q DEF Pressed, LoadEnds
<1>5. CASE Generate
  <2>1. EngineSteps /\ StreamTypes /\ pc' = pc /\ cmd' = cmd /\ eng' = eng /\ code' = code
    BY <1>5, Generates DEF Inv, TypeInv
  <2>2. /\ UNCHANGED <<on_push, cb, got, shutdown>>
        /\ \/ refs' = refs /\ phase[Run] \in {"held", "failing"} /\ phase'[Run] \in Active
           \/ /\ refs'[Run] = refs[Run] - 1
              /\ phase[Run] \in {"ended", "silent"} /\ phase'[Run] = "gone"
    BY <2>1, EngineMoves
  <2>3. UNCHANGED <<sigints, g_run_cancel, stop_sent, cancel_sent, reason, rc>>
    BY <2>1, <1>5, Generates
  <2>4. (\E i \in DOMAIN q'[Run] : q'[Run][i] = "cancelled") => cancelled'[Run] = TRUE
    BY <2>1, <1>a, CancelledMarks DEF Pressed
  <2>5. cancelled'[Run] = TRUE => cancelled[Run] = TRUE \/ shutdown = TRUE
    BY <2>1, CancelledMarks
  <2>6. QED
    BY <1>a, <2>1, <2>2, <2>3, <2>4, <2>5 DEF Pressed
<1>6. CASE GracePasses /\ UNCHANGED <<commandline, params>>
  BY <1>6, <1>a, <1>q DEF Pressed, GracePasses
<1>7. CASE Sigint
  BY <1>7, <1>a, <1>q DEF Pressed, Sigint, RunSigintHandler, ServeSigintHandler
<1>8. CASE UNCHANGED vars
  BY <1>8, <1>a, <1>q DEF Pressed, vars
<1> HIDE DEF gvars, streams, signals, engine, consumer, commandline, Goto
<1>9. QED
  BY <1>1, <1>2, <1>3, <1>4, <1>5, <1>6, <1>7, <1>8, Cases

LEMMA BlamedKept ==
  ASSUME Inv, [Next]_vars
  PROVE  Blamed'
<1>a. Blamed
  BY DEF Inv
<1>q. Engaged /\ failed \in BOOLEAN /\ rc \in {0, 1} /\ g_run_cancel \in Nat
  BY DEF Inv, TypeInv, Flags, Counts, Places
<1>b. argv \in CommandLines
  BY DEF Inv, TypeInv, Places
<1>c. phase \in [Reqs -> Phases] /\ refs \in [Reqs -> Int] /\ Run \in Reqs
  BY CliRunAssumption DEF Inv, TypeInv, StreamTypes
<1> USE DEF gvars, streams, signals, engine, consumer, commandline, Goto, After, Leaving,
            Terminals, Errors
<1>1. CASE Dispatch /\ UNCHANGED <<argv, params>>
  <2>1. /\ UNCHANGED <<code, g_run_cancel, load_state, reason>>
        /\ pc = "main" /\ pc' # "not_loaded"
        /\ \/ pc' \in Commands /\ failed' = FALSE
           \/ pc' = "exit" /\ (rc' = 1 => failed' = TRUE)
    <3>1. UNCHANGED <<code, g_run_cancel, load_state, reason>>
      BY <1>1, DispatchKeeps
    <3>2. /\ pc = "main"
          /\ \/ pc' \in Commands /\ failed' = FALSE
             \/ pc' = "exit" /\ rc' = 0
             \/ pc' = "exit" /\ failed' = TRUE
      BY <1>1, <1>b, Dispatched DEF Commands
    <3>3. QED
      BY <3>1, <3>2 DEF Commands
  <2>2. code \notin {"0", "1", "130"}
    BY <2>1, <1>q DEF Engaged
  <2>3. QED
    BY <2>1, <2>2, <1>a DEF Blamed, Commands
<1>2. CASE PostGenerate /\ UNCHANGED commandline
  <2>1. /\ UNCHANGED <<code, g_run_cancel, load_state, reason, cmd, rc>>
        /\ pc = "engine_post"
        /\ \/ pc' = "consume"
           \/ pc' = "cleanup" /\ failed' = TRUE
    BY <1>2, PostedKeeps
  <2>2. QED
    BY <2>1, <1>q, <1>a DEF Blamed, Engaged
<1>3. CASE Quiet /\ UNCHANGED <<commandline, params>>
  <2>1. CASE CmdPull
    <3>1. PICK pulled \in BOOLEAN :
             LET ok == pulled /\ opts.other # <<>> IN
             rc' = (IF ok THEN 0 ELSE 1) /\ failed' = ~ok
      BY <2>1 DEF CmdPull
    <3>2. rc' = 1 => failed' = TRUE
      <4> DEFINE ok == pulled /\ opts.other # <<>>
      <4>1. rc' = (IF ok THEN 0 ELSE 1) /\ failed' = ~ok
        BY <3>1
      <4> HIDE DEF ok
      <4>2. CASE ok
        BY <4>1, <4>2
      <4>3. CASE ~ok
        BY <4>1, <4>3, Zenon
      <4>4. QED
        BY <4>2, <4>3
    <3>3. UNCHANGED <<cmd, code, reason, g_run_cancel, load_state>> /\ pc = "pull" /\ pc' = "exit"
      BY <1>3, <2>1 DEF CmdPull
    <3>4. QED
      BY <3>2, <3>3, <1>a, <1>q DEF Blamed, Engaged
  <2>2. CASE CmdList
    BY <1>3, <2>2, <1>a, <1>q DEF Blamed, CmdList, Engaged
  <2>3. CASE PrepareServe
    BY <1>3, <2>3, <1>a, <1>q DEF Blamed, PrepareServe, Engaged
  <2>4. CASE PrepareRun
    BY <1>3, <2>4, <1>a, <1>q DEF Blamed, PrepareRun, Engaged
  <2>5. CASE InstallRunHandler
    BY <1>3, <2>5, <1>a, <1>q DEF Blamed, InstallRunHandler, Engaged
  <2>6. CASE EngineInit
    BY <1>3, <2>6, <1>a, <1>q DEF Blamed, EngineInit, Engaged
  <2>7. CASE PostLoad
    BY <1>3, <2>7, <1>a, <1>q DEF Blamed, PostLoad, Engaged
  <2>8. CASE WaitLoad
    BY <1>3, <2>8, <1>a, <1>q DEF Blamed, WaitLoad, Engaged
  <2>9. CASE NotLoaded
    <3>1. /\ UNCHANGED <<cmd, code, g_run_cancel, load_state>> /\ pc = "not_loaded"
          /\ pc' = "cleanup"
      BY <1>3, <2>9 DEF NotLoaded
    <3>2. rc' = 1 => failed' = TRUE
      <4>1. CASE cmd = "run" /\ g_run_cancel > 0
        BY <4>1, <2>9 DEF NotLoaded
      <4>2. CASE ~(cmd = "run" /\ g_run_cancel > 0)
        <5>1. failed' = (load_state = "FAILED")
          BY <4>2, <2>9, Zenon DEF NotLoaded
        <5>2. load_state = "FAILED"
          BY <3>1, <4>2, <1>a DEF Blamed
        <5>3. QED
          BY <5>1, <5>2, Zenon
      <4>3. QED
        BY <4>1, <4>2
    <3>3. QED
      BY <3>1, <3>2, <1>a, <1>q DEF Blamed, Engaged
  <2>10. CASE CreateStream
    BY <1>3, <2>10, <1>a, <1>q DEF Blamed, CreateStream, Engaged
  <2>11. CASE PollCancel
    BY <1>3, <2>11, <1>a, <1>q DEF Blamed, PollCancel, Engaged
  <2>12. CASE ConsumeChunk
    BY <1>3, <2>12, <1>a, <1>q DEF Blamed, ConsumeChunk, Engaged, StreamNext
  <2>13. CASE ConsumeNothing
    BY <1>3, <2>13, <1>a, <1>q DEF Blamed, ConsumeNothing, Engaged
  <2>14. CASE CreateServer
    BY <1>3, <2>14, <1>a, <1>q DEF Blamed, CreateServer, Engaged
  <2>15. CASE InstallServeHandler
    BY <1>3, <2>15, <1>a, <1>q DEF Blamed, InstallServeHandler, Engaged
  <2>16. CASE ServerStops
    BY <1>3, <2>16, <1>a, <1>q DEF Blamed, ServerStops, Engaged
  <2>17. CASE ForgetServer
    BY <1>3, <2>17, <1>a, <1>q DEF Blamed, ForgetServer, Engaged
  <2>18. CASE RestoreSigint
    BY <1>3, <2>18, <1>a, <1>q DEF Blamed, RestoreSigint, Engaged
  <2>19. CASE ReleaseStream
    BY <1>3, <2>19, <1>a, <1>q DEF Blamed, ReleaseStream, Engaged
  <2>20. CASE DestroyEngine
    BY <1>3, <2>20, <1>a, <1>q DEF Blamed, DestroyEngine, Engaged
  <2>21. CASE JoinEngine
    BY <1>3, <2>21, <1>a, <1>q DEF Blamed, JoinEngine, Engaged
  <2>22. CASE Exit
    BY <1>3, <2>22, <1>a, <1>q DEF Blamed, Exit, Engaged
  <2>23. QED
    BY <1>3, <2>1, <2>2, <2>3, <2>4, <2>5, <2>6, <2>7, <2>8, <2>9, <2>10, <2>11, <2>12,
       <2>13, <2>14, <2>15, <2>16, <2>17, <2>18, <2>19, <2>20, <2>21, <2>22
       DEF Quiet
<1>4. CASE LoadEnds
  BY <1>4, <1>a, <1>q DEF Blamed, LoadEnds
<1>5. CASE Generate
  <2>1. UNCHANGED <<pc, cmd, code, rc, reason, failed, g_run_cancel, load_state>>
    BY <1>5, Generates
  <2>2. QED
    BY <2>1, <1>a DEF Blamed
<1>6. CASE GracePasses /\ UNCHANGED <<commandline, params>>
  BY <1>6, <1>a, <1>q DEF Blamed, GracePasses
<1>7. CASE Sigint
  BY <1>7, <1>a, <1>q DEF Blamed, Sigint, RunSigintHandler, ServeSigintHandler
<1>8. CASE UNCHANGED vars
  BY <1>8, <1>a, <1>q DEF Blamed, vars
<1> HIDE DEF gvars, streams, signals, engine, consumer, commandline, Goto, After, Leaving,
             Terminals, Errors
<1>9. QED
  BY <1>1, <1>2, <1>3, <1>4, <1>5, <1>6, <1>7, <1>8, Cases

LEMMA ParsedKept ==
  ASSUME Inv, [Next]_vars
  PROVE  Parsed'
<1>a. Parsed
  BY DEF Inv
<1>q. Placed
  BY DEF Inv
<1>b. argv \in CommandLines
  BY DEF Inv, TypeInv, Places
<1>c. phase \in [Reqs -> Phases] /\ refs \in [Reqs -> Int] /\ Run \in Reqs
  BY CliRunAssumption DEF Inv, TypeInv, StreamTypes
<1> USE DEF gvars, streams, signals, engine, consumer, commandline, Goto
<1>1. CASE Dispatch /\ UNCHANGED <<argv, params>>
  <2>1. pc' # "main" /\ opts'.ok \in BOOLEAN
    BY <1>1, <1>b, Dispatched DEF Commands
  <2>2. cmd' \in Commands => argv' # <<>> /\ opts' = cli_parse(cmd', Tail(argv'))
    BY <1>1, <1>b, Dispatched
  <2>3. cmd' \notin Commands => DOMAIN opts'.value = {}
    BY <1>1, <1>b, Dispatched
  <2>4. opts'.ok = FALSE => pc' \in {"exit", "exited"} /\ rc' = 1
    BY <1>1, <1>b, Dispatched
  <2>5. cmd' = "pull" => rc' = 1
    <3>1. pc = "main" /\ "pull" \in Commands
      BY <1>1, <1>b, Dispatched DEF Commands
    <3>2. rc = 1
      BY <3>1, <1>q DEF Placed, After, Leaving
    <3>3. QED
      BY <3>1, <3>2, <1>1, <1>b, Dispatched
  <2>6. QED
    BY <2>1, <2>2, <2>3, <2>4, <2>5 DEF Parsed
<1>2. CASE PostGenerate /\ UNCHANGED commandline
  <2>1. pc = "engine_post" /\ pc' # "main" /\ UNCHANGED <<argv, cmd, opts, rc>>
    BY <1>2, PostedKeeps
  <2>2. QED
    BY <2>1, <1>a, <1>q DEF Parsed, Placed
<1>3. CASE Quiet /\ UNCHANGED <<commandline, params>>
  <2>1. CASE CmdPull
    <3>1. PICK pulled \in BOOLEAN :
             LET ok == pulled /\ opts.other # <<>> IN
             rc' = (IF ok THEN 0 ELSE 1) /\ failed' = ~ok
      BY <2>1 DEF CmdPull
    <3>2. rc' = 0 => opts.other # <<>>
      BY <3>1
    <3>3. UNCHANGED <<argv, cmd, opts>> /\ pc = "pull" /\ pc' = "exit"
      BY <1>3, <2>1 DEF CmdPull
    <3>4. QED
      BY <3>2, <3>3, <1>a DEF Parsed
  <2>2. CASE CmdList
    BY <1>3, <2>2, <1>a, <1>q DEF Parsed, CmdList, Placed, Loop
  <2>3. CASE PrepareServe
    BY <1>3, <2>3, <1>a, <1>q DEF Parsed, PrepareServe, Placed, Loop
  <2>4. CASE PrepareRun
    BY <1>3, <2>4, <1>a, <1>q DEF Parsed, PrepareRun, Placed, Loop
  <2>5. CASE InstallRunHandler
    BY <1>3, <2>5, <1>a, <1>q DEF Parsed, InstallRunHandler, Placed, Loop
  <2>6. CASE EngineInit
    BY <1>3, <2>6, <1>a, <1>q DEF Parsed, EngineInit, Placed, Loop
  <2>7. CASE PostLoad
    BY <1>3, <2>7, <1>a, <1>q DEF Parsed, PostLoad, Placed, Loop
  <2>8. CASE WaitLoad
    BY <1>3, <2>8, <1>a, <1>q DEF Parsed, WaitLoad, Placed, Loop
  <2>9. CASE NotLoaded
    BY <1>3, <2>9, <1>a, <1>q DEF Parsed, NotLoaded, Placed, Loop
  <2>10. CASE CreateStream
    BY <1>3, <2>10, <1>a, <1>q DEF Parsed, CreateStream, Placed, Loop
  <2>11. CASE PollCancel
    BY <1>3, <2>11, <1>a, <1>q DEF Parsed, PollCancel, Placed, Loop
  <2>12. CASE ConsumeChunk
    BY <1>3, <2>12, <1>a, <1>q DEF Parsed, ConsumeChunk, StreamNext, Placed, Loop
  <2>13. CASE ConsumeNothing
    BY <1>3, <2>13, <1>a, <1>q DEF Parsed, ConsumeNothing, Placed, Loop
  <2>14. CASE CreateServer
    BY <1>3, <2>14, <1>a, <1>q DEF Parsed, CreateServer, Placed, Loop
  <2>15. CASE InstallServeHandler
    BY <1>3, <2>15, <1>a, <1>q DEF Parsed, InstallServeHandler, Placed, Loop
  <2>16. CASE ServerStops
    BY <1>3, <2>16, <1>a, <1>q DEF Parsed, ServerStops, Placed, Loop
  <2>17. CASE ForgetServer
    BY <1>3, <2>17, <1>a, <1>q DEF Parsed, ForgetServer, Placed, Loop
  <2>18. CASE RestoreSigint
    BY <1>3, <2>18, <1>a, <1>q DEF Parsed, RestoreSigint, Placed, Loop
  <2>19. CASE ReleaseStream
    BY <1>3, <2>19, <1>a, <1>q DEF Parsed, ReleaseStream, Placed, Loop
  <2>20. CASE DestroyEngine
    BY <1>3, <2>20, <1>a, <1>q DEF Parsed, DestroyEngine, Placed, Loop
  <2>21. CASE JoinEngine
    BY <1>3, <2>21, <1>a, <1>q DEF Parsed, JoinEngine, Placed, Loop
  <2>22. CASE Exit
    BY <1>3, <2>22, <1>a, <1>q DEF Parsed, Exit, Placed, Loop
  <2>23. QED
    BY <1>3, <2>1, <2>2, <2>3, <2>4, <2>5, <2>6, <2>7, <2>8, <2>9, <2>10, <2>11, <2>12,
       <2>13, <2>14, <2>15, <2>16, <2>17, <2>18, <2>19, <2>20, <2>21, <2>22
       DEF Quiet
<1>4. CASE LoadEnds
  BY <1>4, <1>a, <1>q DEF Parsed, LoadEnds
<1>5. CASE Generate
  <2>1. UNCHANGED <<pc, rc, argv, cmd, opts>>
    BY <1>5, Generates
  <2>2. QED
    BY <2>1, <1>a DEF Parsed
<1>6. CASE GracePasses /\ UNCHANGED <<commandline, params>>
  BY <1>6, <1>a, <1>q DEF Parsed, GracePasses
<1>7. CASE Sigint
  BY <1>7, <1>a, <1>q DEF Parsed, Sigint, RunSigintHandler, ServeSigintHandler
<1>8. CASE UNCHANGED vars
  BY <1>8, <1>a, <1>q DEF Parsed, vars
<1> HIDE DEF gvars, streams, signals, engine, consumer, commandline, Goto
<1>9. QED
  BY <1>1, <1>2, <1>3, <1>4, <1>5, <1>6, <1>7, <1>8, Cases

-----------------------------------------------------------------------------
(* How each step of the engine changes the shape of what it has sent.      *)
LEMMA ShapeToken ==
  ASSUME NEW h \in Seq(Chunks), NEW n \in Nat, Shape(h, "held", n)
  PROVE  Shape(Append(h, "token"), "held", n + 1)
<1> DEFINE k == Append(h, "token")
<1>1. Len(h) \in Nat /\ Len(k) = Len(h) + 1 /\ k[Len(h) + 1] = "token"
  OBVIOUS
<1>2. \A i \in 1..Len(h) : k[i] = h[i]
  OBVIOUS
<1> HIDE DEF k
<1>3. Len(h) = n /\ \A i \in 1..Len(h) : h[i] = "token"
  BY DEF Shape
<1>4. Len(k) = n + 1 /\ \A i \in 1..(n + 1) : k[i] = "token"
  BY <1>1, <1>2, <1>3
<1>5. Shape(k, "held", n + 1)
  BY <1>4 DEF Shape, Terminals
<1>6. QED
  BY <1>5 DEF k

LEMMA ShapeError ==
  ASSUME NEW h \in Seq(Chunks), NEW n \in Nat, NEW e \in Errors, Shape(h, "held", n)
  PROVE  Shape(Append(h, e), "failing", n)
<1> DEFINE k == Append(h, e)
<1>1. Len(h) \in Nat /\ Len(k) = Len(h) + 1 /\ k[Len(h) + 1] = e
  OBVIOUS
<1>2. \A i \in 1..Len(h) : k[i] = h[i]
  OBVIOUS
<1> HIDE DEF k
<1>3. Len(h) = n /\ \A i \in 1..Len(h) : h[i] = "token"
  BY DEF Shape
<1>4. e \notin Terminals /\ e # "token"
  BY DEF Errors, Terminals
<1>5. \A i \in 1..Len(k) : k[i] \notin Terminals
  BY <1>1, <1>2, <1>3, <1>4 DEF Terminals
<1>6. \E i \in 1..Len(k) : k[i] \in Errors
  BY <1>1
<1>7. \A i \in 0..Len(k) : (\A j \in 1..i : k[j] = "token") => i =< n
  BY <1>1, <1>3, <1>4
<1>8. Shape(k, "failing", n)
  BY <1>5, <1>6, <1>7 DEF Shape, Terminals
<1>9. QED
  BY <1>8 DEF k

LEMMA ShapeDone ==
  ASSUME NEW h \in Seq(Chunks), NEW n \in Nat, NEW ph, NEW c, Shape(h, ph, n),
         \/ ph = "held" /\ c \in {"stop", "length"}
         \/ ph = "failing" /\ c = "stop"
  PROVE  Shape(Append(h, c), "ended", n)
<1> DEFINE k == Append(h, c)
<1>0. c \in Chunks /\ c \in {"stop", "length"} /\ (ph = "held" \/ ph = "failing") /\ c # "token"
  BY DEF Chunks, Terminals
<1>1. Len(h) \in Nat /\ Len(k) = Len(h) + 1 /\ k[Len(h) + 1] = c
  BY <1>0
<1>2. \A i \in 1..Len(h) : k[i] = h[i]
  BY <1>0
<1> HIDE DEF k
<1>3. \A i \in 1..Len(h) : h[i] \notin Terminals
  BY <1>0 DEF Shape
<1>4. \/ n = Len(h) /\ \A j \in 1..Len(h) : k[j] = "token"
      \/ \E j \in 1..Len(h) : k[j] \in Errors
  BY <1>0, <1>1, <1>2 DEF Shape
<1>5. ASSUME NEW i \in 1..Len(k), k[i] \in {"stop", "length"}
      PROVE  /\ i = Len(k)
             /\ \/ n = i - 1 /\ \A j \in 1..(i - 1) : k[j] = "token"
                \/ \E j \in 1..(i - 1) : k[j] \in Errors
  <2>1. i = Len(h) + 1
    BY <1>1, <1>2, <1>3, <1>5 DEF Terminals
  <2>2. i - 1 = Len(h)
    BY <1>1, <2>1
  <2>3. QED
    BY <1>1, <1>4, <2>1, <2>2
<1>6. \A i \in 0..Len(k) : (\A j \in 1..i : k[j] = "token") => i =< n
  <2>1. \A i \in 0..Len(h) : (\A j \in 1..i : h[j] = "token") => i =< n
    BY DEF Shape
  <2>2. ASSUME NEW i \in 0..Len(k), \A j \in 1..i : k[j] = "token"
        PROVE  i =< n
    <3>1. i # Len(h) + 1
      BY <1>0, <1>1, <2>2
    <3>2. i \in 0..Len(h) /\ \A j \in 1..i : h[j] = "token"
      BY <1>1, <1>2, <2>2, <3>1
    <3>3. QED
      BY <2>1, <3>2
  <2>3. QED
    BY <2>2
<1>7. Shape(k, "ended", n)
  BY <1>5, <1>6 DEF Shape
<1>8. QED
  BY <1>7 DEF k

(* A cut appends its terminal, or puts it in the last chunk's place.       *)
LEMMA ShapeCut ==
  ASSUME NEW h \in Seq(Chunks), NEW k \in Seq(Chunks), NEW n \in Nat, NEW ph,
         Shape(h, ph, n), ph \in {"held", "failing"},
         Len(k) = Len(h) \/ Len(k) = Len(h) + 1, Len(k) > 0, k[Len(k)] = "cancelled",
         \A i \in 1..(Len(k) - 1) : k[i] = h[i]
  PROVE  Shape(k, "ended", n)
<1>1. Len(h) \in Nat /\ Len(k) \in Nat /\ \A i \in 1..Len(h) : h[i] \notin Terminals
  BY DEF Shape
<1>2. \A i \in 1..Len(k) : k[i] \notin {"stop", "length"}
  BY <1>1 DEF Terminals
<1>3. \A i \in 0..Len(h) : (\A j \in 1..i : h[j] = "token") => i =< n
  BY DEF Shape
<1>4. ASSUME NEW i \in 0..Len(k), \A j \in 1..i : k[j] = "token"
      PROVE  i =< n
  <2>1. i # Len(k)
    BY <1>1, <1>4
  <2>2. i \in 0..Len(h) /\ \A j \in 1..i : h[j] = "token"
    BY <1>1, <1>4, <2>1
  <2>3. QED
    BY <1>3, <2>2
<1>5. QED
  BY <1>2, <1>4 DEF Shape

LEMMA ShapeKept ==
  ASSUME NEW h \in Seq(Chunks), NEW n \in Nat, NEW ph, NEW ph2, Shape(h, ph, n),
         \/ ph = "none" /\ ph2 = "held"
         \/ ph \in {"held", "failing"} /\ ph2 = "silent"
         \/ ph \in {"ended", "silent"} /\ ph2 = "gone"
  PROVE  Shape(h, ph2, n)
<1>1. CASE ph = "none" /\ ph2 = "held"
  BY <1>1 DEF Shape
<1>2. CASE ph \in {"held", "failing"} /\ ph2 = "silent"
  BY <1>2 DEF Shape, Terminals
<1>3. CASE ph \in {"ended", "silent"} /\ ph2 = "gone"
  BY <1>3 DEF Shape, Terminals
<1>4. QED
  BY <1>1, <1>2, <1>3

(* The history under the operations of the stream.                         *)
LEMMA PushedHistory ==
  ASSUME NEW g \in Seq(Chunks), NEW w \in Seq(Chunks), NEW c \in Chunks
  PROVE  g \o Append(w, c) = Append(g \o w, c)
<1>1. g \o w \in Seq(Chunks) /\ Append(w, c) \in Seq(Chunks)
  OBVIOUS
<1>2. g \o Append(w, c) \in Seq(Chunks) /\ Append(g \o w, c) \in Seq(Chunks)
  BY <1>1
<1>3. /\ Len(g) \in Nat /\ Len(w) \in Nat /\ Len(g \o w) = Len(g) + Len(w)
      /\ Len(g \o Append(w, c)) = Len(g) + Len(w) + 1
      /\ Len(Append(g \o w, c)) = Len(g) + Len(w) + 1
  BY <1>1
<1>4. ASSUME NEW i \in 1..(Len(g) + Len(w) + 1)
      PROVE  (g \o Append(w, c))[i] = Append(g \o w, c)[i]
  <2>1. CASE i \in 1..Len(g)
    BY <1>1, <1>3, <2>1
  <2>2. CASE i \in (Len(g) + 1)..(Len(g) + Len(w))
    BY <1>1, <1>3, <2>2
  <2>3. CASE i = Len(g) + Len(w) + 1
    BY <1>1, <1>3, <2>3
  <2>4. QED
    BY <1>3, <2>1, <2>2, <2>3
<1>5. QED
  BY <1>2, <1>3, <1>4, SeqEqual

LEMMA TakenHistory ==
  ASSUME NEW g \in Seq(Chunks), NEW w \in Seq(Chunks), w # <<>>
  PROVE  Append(g, Head(w)) \o Tail(w) = g \o w
<1>1. /\ Head(w) \in Chunks /\ Head(w) = w[1] /\ Tail(w) \in Seq(Chunks) /\ Len(w) \in Nat
      /\ Len(w) > 0 /\ Len(Tail(w)) = Len(w) - 1 /\ Len(g) \in Nat
      /\ \A i \in 1..(Len(w) - 1) : Tail(w)[i] = w[i + 1]
  OBVIOUS
<1>2. Append(g, Head(w)) \in Seq(Chunks) /\ Len(Append(g, Head(w))) = Len(g) + 1
  BY <1>1
<1> DEFINE a == Append(g, Head(w))
<1>3. a[Len(g) + 1] = w[1] /\ \A i \in 1..Len(g) : a[i] = g[i]
  BY <1>1
<1> DEFINE b == Tail(w)
<1>4. a \in Seq(Chunks) /\ b \in Seq(Chunks) /\ Len(a) = Len(g) + 1 /\ Len(b) = Len(w) - 1
  BY <1>1, <1>2
<1>5. \A i \in 1..(Len(w) - 1) : b[i] = w[i + 1]
  BY <1>1
<1> HIDE DEF a, b
<1>6. /\ a \o b \in Seq(Chunks) /\ g \o w \in Seq(Chunks)
      /\ Len(a \o b) = Len(g) + Len(w) /\ Len(g \o w) = Len(g) + Len(w)
  BY <1>1, <1>4
<1>7. ASSUME NEW i \in 1..(Len(g) + Len(w))
      PROVE  (a \o b)[i] = (g \o w)[i]
  <2>1. CASE i \in 1..Len(g)
    BY <1>1, <1>3, <1>4, <2>1
  <2>2. CASE i = Len(g) + 1
    BY <1>1, <1>3, <1>4, <2>2
  <2>3. CASE i \in (Len(g) + 2)..(Len(g) + Len(w))
    <3>1. (a \o b)[i] = b[i - (Len(g) + 1)] /\ i - (Len(g) + 1) \in 1..(Len(w) - 1)
      BY <1>1, <1>4, <2>3
    <3>2. b[i - (Len(g) + 1)] = w[(i - (Len(g) + 1)) + 1]
      BY <1>5, <3>1
    <3>3. (i - (Len(g) + 1)) + 1 = i - Len(g) /\ (g \o w)[i] = w[i - Len(g)]
      BY <1>1, <2>3
    <3>4. QED
      BY <3>1, <3>2, <3>3
  <2>4. Len(g) \in Nat /\ Len(w) \in Nat
    BY <1>1
  <2>5. i \in 1..Len(g) \/ i = Len(g) + 1 \/ i \in (Len(g) + 2)..(Len(g) + Len(w))
    BY <2>4
  <2>6. QED
    BY <2>1, <2>2, <2>3, <2>5
<1>8. a \o b = g \o w
  BY <1>1, <1>6, <1>7, SeqEqual
<1>9. QED
  BY <1>8 DEF a, b

(* The chunks taken come before those queued.                             *)
LEMMA Joined ==
  ASSUME NEW g \in Seq(Chunks), NEW w \in Seq(Chunks)
  PROVE  /\ \A i \in 1..Len(g) : (g \o w)[i] = g[i]
         /\ \A i \in (Len(g) + 1)..(Len(g) + Len(w)) : (g \o w)[i] = w[i - Len(g)]
<1>1. Len(g) \in Nat /\ Len(w) \in Nat
  OBVIOUS
<1>2. \A i \in 1..Len(g) : (g \o w)[i] = g[i]
  BY <1>1
<1>3. \A i \in (Len(g) + 1)..(Len(g) + Len(w)) : (g \o w)[i] = w[i - Len(g)]
  BY <1>1
<1>4. QED
  BY <1>2, <1>3

(* A cut puts its terminal last in the history.                            *)
LEMMA CutHistory ==
  ASSUME NEW g \in Seq(Chunks), NEW w \in Seq(Chunks), NEW v \in Seq(Chunks),
         Len(w) =< Cap,
         v = IF Len(w) < Cap THEN Append(w, "cancelled") ELSE [w EXCEPT ![Cap] = "cancelled"]
  PROVE  LET h == g \o w
             k == g \o v
         IN  /\ h \in Seq(Chunks) /\ k \in Seq(Chunks)
             /\ Len(k) = Len(h) \/ Len(k) = Len(h) + 1
             /\ Len(k) > 0 /\ k[Len(k)] = "cancelled"
             /\ \A i \in 1..(Len(k) - 1) : k[i] = h[i]
<1> DEFINE h == g \o w
           k == g \o v
<1>1. Len(g) \in Nat /\ Len(w) \in Nat /\ Cap \in Nat /\ Cap >= 2 /\ "cancelled" \in Chunks
  BY StreamCapAssumption DEF Chunks, Terminals
<1>2. /\ \/ Len(v) = Len(w) /\ Len(w) > 0
         \/ Len(v) = Len(w) + 1
      /\ v[Len(v)] = "cancelled" /\ \A i \in 1..(Len(v) - 1) : v[i] = w[i] /\ i \in 1..Len(w)
  <2>1. CASE Len(w) < Cap
    <3>1. v = Append(w, "cancelled")
      BY <2>1
    <3>2. QED
      BY <1>1, <3>1
  <2>2. CASE ~(Len(w) < Cap)
    <3>1. v = [w EXCEPT ![Cap] = "cancelled"] /\ Len(w) = Cap
      BY <1>1, <2>2
    <3>2. QED
      BY <1>1, <3>1
  <2>3. QED
    BY <2>1, <2>2
<1>3. /\ h \in Seq(Chunks) /\ k \in Seq(Chunks)
      /\ Len(h) = Len(g) + Len(w) /\ Len(k) = Len(g) + Len(v) /\ Len(v) \in Nat
  BY <1>1
<1>4. /\ \A i \in 1..Len(g) : h[i] = g[i] /\ k[i] = g[i]
      /\ \A i \in (Len(g) + 1)..(Len(g) + Len(w)) : h[i] = w[i - Len(g)]
      /\ \A i \in (Len(g) + 1)..(Len(g) + Len(v)) : k[i] = v[i - Len(g)]
  BY Joined
<1> HIDE DEF h, k
<1>5. Len(v) > 0
  BY <1>1, <1>2, <1>3
<1>6. k[Len(k)] = "cancelled"
  <2>1. Len(k) \in (Len(g) + 1)..(Len(g) + Len(v)) /\ Len(k) - Len(g) = Len(v)
    BY <1>1, <1>3, <1>5
  <2>2. QED
    BY <1>2, <1>4, <2>1
<1>7. ASSUME NEW i \in 1..(Len(k) - 1)
      PROVE  k[i] = h[i]
  <2>1. CASE i \in 1..Len(g)
    BY <1>4, <2>1
  <2>2. CASE i \in (Len(g) + 1)..(Len(g) + Len(v) - 1)
    <3>1. i - Len(g) \in 1..(Len(v) - 1) /\ i \in (Len(g) + 1)..(Len(g) + Len(v))
      BY <1>1, <1>3, <2>2
    <3>2. v[i - Len(g)] = w[i - Len(g)] /\ i - Len(g) \in 1..Len(w)
      BY <1>2, <3>1
    <3>3. i \in (Len(g) + 1)..(Len(g) + Len(w))
      BY <1>1, <3>1, <3>2
    <3>4. QED
      BY <1>4, <3>1, <3>2, <3>3
  <2>3. QED
    BY <1>1, <1>3, <2>1, <2>2
<1>8. (Len(k) = Len(h) \/ Len(k) = Len(h) + 1) /\ Len(k) > 0
  BY <1>1, <1>2, <1>3, <1>5
<1>9. QED
  BY <1>3, <1>6, <1>7, <1>8 DEF h, k

LEMMA EngineShapes ==
  ASSUME EngineSteps, StreamTypes, Shaped, sent \in Nat
  PROVE  Shaped'
<1> DEFINE h == got[Run] \o q[Run]
<1>1. /\ q \in [Reqs -> Seq(Chunks)] /\ got \in [Reqs -> Seq(Chunks)] /\ Len(q[Run]) =< Cap
      /\ phase \in [Reqs -> Phases] /\ Run \in Reqs /\ q[Run] \in Seq(Chunks)
      /\ got[Run] \in Seq(Chunks) /\ h \in Seq(Chunks)
  BY CliRunAssumption DEF StreamTypes
<1>2. Shape(h, phase[Run], sent)
  BY DEF Shaped, History
<1>3. got' = got /\ q' \in [Reqs -> Seq(Chunks)] /\ q'[Run] \in Seq(Chunks)
  BY <1>1, EngineMoves, QueueTyped
<1>4. Shaped' <=> Shape(got[Run] \o q'[Run], phase'[Run], sent')
  BY <1>3 DEF Shaped, History
<1>5. ASSUME NEW c \in Chunks, StreamPush(Run, c)
      PROVE  got[Run] \o q'[Run] = Append(h, c)
  <2>1. q'[Run] = Append(q[Run], c)
    BY <1>1, <1>5 DEF StreamPush
  <2>2. QED
    BY <1>1, <2>1, PushedHistory
<1>6. CASE SendToken(Run) /\ sent' = sent + 1
  <2>1. StreamPush(Run, "token") /\ phase[Run] = "held" /\ phase' = phase /\ "token" \in Chunks
    BY <1>6 DEF SendToken, Chunks
  <2>2. Shape(h, "held", sent)
    BY <1>2, <2>1
  <2> HIDE DEF h
  <2>3. Shape(Append(h, "token"), "held", sent + 1)
    BY <1>1, <2>2, ShapeToken
  <2>4. QED
    BY <1>4, <1>5, <1>6, <2>1, <2>3
<1>7. CASE SendError(Run) /\ sent' = sent
  <2>1. phase[Run] = "held" /\ phase' = [phase EXCEPT ![Run] = "failing"]
    BY <1>7 DEF SendError, To
  <2>2. PICK e \in Errors : StreamPush(Run, e)
    BY <1>7 DEF SendError
  <2>3. Shape(h, "held", sent) /\ phase'[Run] = "failing" /\ e \in Chunks
    BY <1>1, <1>2, <2>1 DEF Chunks
  <2> HIDE DEF h
  <2>4. Shape(Append(h, e), "failing", sent)
    BY <1>1, <2>3, ShapeError
  <2>5. QED
    BY <1>4, <1>5, <1>7, <2>2, <2>3, <2>4
<1>8. CASE SendDone(Run) /\ sent' = sent
  <2>1. PICK c \in {"stop", "length"} :
           /\ StreamPush(Run, c)
           /\ \/ phase[Run] = "held"
              \/ phase[Run] = "failing" /\ c = "stop"
    BY <1>8 DEF SendDone
  <2>2. phase'[Run] = "ended" /\ c \in Chunks
    BY <1>1, <1>8 DEF SendDone, To, Chunks, Terminals
  <2> HIDE DEF h
  <2>3. Shape(Append(h, c), "ended", sent)
    BY <1>1, <1>2, <2>1, ShapeDone
  <2>4. QED
    BY <1>4, <1>5, <1>8, <2>1, <2>2, <2>3
<1>9. CASE CutShort(Run) /\ sent' = sent
  <2>1. /\ phase[Run] \in {"held", "failing"} /\ phase'[Run] = "ended"
        /\ q'[Run] = IF Len(q[Run]) < Cap THEN Append(q[Run], "cancelled")
                     ELSE [q[Run] EXCEPT ![Cap] = "cancelled"]
    BY <1>1, <1>9 DEF CutShort, StreamFinishCancelled, To
  <2> DEFINE k == got[Run] \o q'[Run]
  <2>2. /\ k \in Seq(Chunks)
        /\ Len(k) = Len(h) \/ Len(k) = Len(h) + 1
        /\ Len(k) > 0 /\ k[Len(k)] = "cancelled"
        /\ \A i \in 1..(Len(k) - 1) : k[i] = h[i]
    BY <1>1, <1>3, <2>1, CutHistory
  <2> HIDE DEF h, k
  <2>3. Shape(k, "ended", sent)
    BY <1>1, <1>2, <2>1, <2>2, ShapeCut
  <2>4. QED
    BY <1>4, <1>9, <2>1, <2>3 DEF k
<1>10. CASE (GiveUp(Run) \/ Release(Run)) /\ sent' = sent
  <2>1. /\ q' = q
        /\ \/ phase[Run] \in {"held", "failing"} /\ phase'[Run] = "silent"
           \/ phase[Run] \in {"ended", "silent"} /\ phase'[Run] = "gone"
    BY <1>1, <1>10 DEF GiveUp, Release, streams, StreamRelease, To
  <2>2. Shape(h, phase'[Run], sent)
    <3> HIDE DEF h
    <3>1. QED
      BY <1>1, <1>2, <2>1, ShapeKept
  <2>3. QED
    BY <1>4, <1>10, <2>1, <2>2
<1>11. QED
  BY <1>6, <1>7, <1>8, <1>9, <1>10 DEF EngineSteps

LEMMA MaxTokensAre ==
  ASSUME NEW args \in Seq(Args), opts = cli_parse("run", args), opts.ok = TRUE
  PROVE  MaxTokensOf(opts) \in Int
<1> DEFINE s == SyntaxOf["run"]
           p == Read(s, args)
<1>1. IsSyntax(s)
  BY Syntaxes
<1>2. opts.value = p.value /\ p.ok = TRUE
  BY ParsesAre
<1>3. \A o \in DOMAIN p.value : p.value[o] \in s.valued[o]
  BY <1>1, <1>2, ReadMeans
<1>4. DOMAIN p.value \subseteq DOMAIN s.valued
  <2>1. p.value \in Values(s)
    BY <1>1, ReadMeans DEF Parses
  <2>2. QED
    BY <2>1 DEF Values
<1>5. s.valued["--max-tokens"] = Longs(0, INT_MAX)
  BY DEF SyntaxOf, RunSyntax
<1>6. "--max-tokens" \in DOMAIN p.value => Long[p.value["--max-tokens"]] \in Int
  BY <1>3, <1>5, CliArgsAssumption DEF Longs
<1> HIDE DEF p
<1>7. QED
  BY <1>2, <1>6, CliArgsAssumption DEF MaxTokensOf

LEMMA ShapedKept ==
  ASSUME Inv, [Next]_vars
  PROVE  Shaped'
<1>a. Shaped
  BY DEF Inv
<1>b. argv \in CommandLines
  BY DEF Inv, TypeInv, Places
<1>c. phase \in [Reqs -> Phases] /\ refs \in [Reqs -> Int] /\ Run \in Reqs
  BY CliRunAssumption DEF Inv, TypeInv, StreamTypes
<1>t. /\ Owned /\ StreamTypes /\ sent \in Nat
      /\ q[Run] \in Seq(Chunks) /\ got[Run] \in Seq(Chunks) /\ History(Run) \in Seq(Chunks)
      /\ q \in [Reqs -> Seq(Chunks)] /\ got \in [Reqs -> Seq(Chunks)]
  BY <1>c DEF Inv, TypeInv, StreamTypes, Counts, History
<1> USE DEF gvars, streams, signals, engine, consumer, commandline, Goto
<1>1. CASE Dispatch /\ UNCHANGED <<argv, params>>
  BY <1>1, <1>a, DispatchKeeps DEF Shaped, History
<1>2. CASE PostGenerate /\ UNCHANGED commandline
  <2>1. UNCHANGED <<q, got, sent>> /\ pc = "engine_post"
    BY <1>2, PostedKeeps
  <2>2. phase[Run] = "none"
    BY <2>1, <1>t DEF Owned
  <2>3. phase'[Run] = "held" \/ phase' = phase
    BY <1>2, <1>c, Posted
  <2>4. Shape(History(Run), phase'[Run], sent)
    BY <1>a, <1>t, <2>2, <2>3, ShapeKept DEF Shaped
  <2>5. QED
    BY <2>1, <2>4 DEF Shaped, History
<1>3. CASE Quiet /\ UNCHANGED <<commandline, params>>
  <2>1. CASE CmdPull
    BY <1>3, <2>1, <1>a DEF Shaped, History, CmdPull
  <2>2. CASE CmdList
    BY <1>3, <2>2, <1>a DEF Shaped, History, CmdList
  <2>3. CASE PrepareServe
    BY <1>3, <2>3, <1>a DEF Shaped, History, PrepareServe
  <2>4. CASE PrepareRun
    BY <1>3, <2>4, <1>a DEF Shaped, History, PrepareRun
  <2>5. CASE InstallRunHandler
    BY <1>3, <2>5, <1>a DEF Shaped, History, InstallRunHandler
  <2>6. CASE EngineInit
    BY <1>3, <2>6, <1>a DEF Shaped, History, EngineInit
  <2>7. CASE PostLoad
    BY <1>3, <2>7, <1>a DEF Shaped, History, PostLoad
  <2>8. CASE WaitLoad
    BY <1>3, <2>8, <1>a DEF Shaped, History, WaitLoad
  <2>9. CASE NotLoaded
    BY <1>3, <2>9, <1>a DEF Shaped, History, NotLoaded
  <2>10. CASE CreateStream
    BY <1>3, <2>10, <1>a DEF Shaped, History, CreateStream
  <2>11. CASE PollCancel
    BY <1>3, <2>11, <1>a DEF Shaped, History, PollCancel, StreamCancel
  <2>12. CASE ConsumeChunk
    <3>1. /\ q[Run] # <<>> /\ phase' = phase /\ sent' = sent
          /\ q' = [q EXCEPT ![Run] = Tail(q[Run])]
          /\ got' = [got EXCEPT ![Run] = Append(got[Run], Head(q[Run]))]
      BY <1>3, <2>12 DEF ConsumeChunk, StreamNext
    <3>2. q'[Run] = Tail(q[Run]) /\ got'[Run] = Append(got[Run], Head(q[Run]))
      BY <3>1, <1>c, <1>t
    <3>3. got'[Run] \o q'[Run] = got[Run] \o q[Run]
      BY <3>1, <3>2, <1>t, TakenHistory
    <3>4. QED
      BY <3>1, <3>3, <1>a DEF Shaped, History
  <2>13. CASE ConsumeNothing
    BY <1>3, <2>13, <1>a DEF Shaped, History, ConsumeNothing
  <2>14. CASE CreateServer
    BY <1>3, <2>14, <1>a DEF Shaped, History, CreateServer
  <2>15. CASE InstallServeHandler
    BY <1>3, <2>15, <1>a DEF Shaped, History, InstallServeHandler
  <2>16. CASE ServerStops
    BY <1>3, <2>16, <1>a DEF Shaped, History, ServerStops
  <2>17. CASE ForgetServer
    BY <1>3, <2>17, <1>a DEF Shaped, History, ForgetServer
  <2>18. CASE RestoreSigint
    BY <1>3, <2>18, <1>a DEF Shaped, History, RestoreSigint
  <2>19. CASE ReleaseStream
    BY <1>3, <2>19, <1>a DEF Shaped, History, ReleaseStream, StreamRelease
  <2>20. CASE DestroyEngine
    BY <1>3, <2>20, <1>a DEF Shaped, History, DestroyEngine
  <2>21. CASE JoinEngine
    BY <1>3, <2>21, <1>a DEF Shaped, History, JoinEngine
  <2>22. CASE Exit
    BY <1>3, <2>22, <1>a DEF Shaped, History, Exit
  <2>23. QED
    BY <1>3, <2>1, <2>2, <2>3, <2>4, <2>5, <2>6, <2>7, <2>8, <2>9, <2>10, <2>11, <2>12,
       <2>13, <2>14, <2>15, <2>16, <2>17, <2>18, <2>19, <2>20, <2>21, <2>22
       DEF Quiet
<1>4. CASE LoadEnds
  BY <1>4, <1>a DEF Shaped, History, LoadEnds
<1>5. CASE Generate
  BY <1>5, <1>a, <1>t, Generates, EngineShapes
<1>6. CASE GracePasses /\ UNCHANGED <<commandline, params>>
  BY <1>6, <1>a DEF Shaped, History, GracePasses
<1>7. CASE Sigint
  BY <1>7, <1>a DEF Shaped, History, Sigint, RunSigintHandler, ServeSigintHandler
<1>8. CASE UNCHANGED vars
  BY <1>8, <1>a DEF Shaped, History, vars
<1> HIDE DEF gvars, streams, signals, engine, consumer, commandline, Goto
<1>9. QED
  BY <1>1, <1>2, <1>3, <1>4, <1>5, <1>6, <1>7, <1>8, Cases

LEMMA BudgetedKept ==
  ASSUME Inv, [Next]_vars
  PROVE  Budgeted'
<1>a. Budgeted
  BY DEF Inv
<1>b. argv \in CommandLines
  BY DEF Inv, TypeInv, Places
<1>c. phase \in [Reqs -> Phases] /\ refs \in [Reqs -> Int] /\ Run \in Reqs
  BY CliRunAssumption DEF Inv, TypeInv, StreamTypes
<1>t. Owned /\ Placed /\ Parsed /\ Shaped /\ StreamTypes /\ sent \in Nat
  BY DEF Inv, TypeInv, Counts
<1> USE DEF gvars, streams, signals, engine, consumer, commandline, Goto
<1>1. CASE Dispatch /\ UNCHANGED <<argv, params>>
  <2>1. pc = "main" /\ UNCHANGED <<phase, sent>>
    BY <1>1, <1>b, Dispatched, DispatchKeeps
  <2>2. phase[Run] = "none" /\ sent = 0
    BY <2>1, <1>t DEF Owned, Early, Shaped, Shape
  <2>3. QED
    BY <2>1, <2>2 DEF Budgeted
<1>2. CASE PostGenerate /\ UNCHANGED commandline
  <2>1. UNCHANGED <<cmd, opts, sent>> /\ pc = "engine_post"
    BY <1>2, PostedKeeps
  <2>2. cmd = "run" /\ opts.ok = TRUE
    BY <2>1, <1>t DEF Placed, Parsed
  <2>3. \/ phase'[Run] = "held" /\ params'.max_tokens = MaxTokensOf(opts)
        \/ UNCHANGED <<phase, params>>
    BY <1>2, <1>c, Posted
  <2>4. QED
    BY <2>1, <2>2, <2>3, <1>a DEF Budgeted
<1>3. CASE Quiet /\ UNCHANGED <<commandline, params>>
  <2>1. CASE CmdPull
    BY <1>3, <2>1, <1>a DEF Budgeted, CmdPull
  <2>2. CASE CmdList
    BY <1>3, <2>2, <1>a DEF Budgeted, CmdList
  <2>3. CASE PrepareServe
    BY <1>3, <2>3, <1>a DEF Budgeted, PrepareServe
  <2>4. CASE PrepareRun
    BY <1>3, <2>4, <1>a DEF Budgeted, PrepareRun
  <2>5. CASE InstallRunHandler
    BY <1>3, <2>5, <1>a DEF Budgeted, InstallRunHandler
  <2>6. CASE EngineInit
    BY <1>3, <2>6, <1>a DEF Budgeted, EngineInit
  <2>7. CASE PostLoad
    BY <1>3, <2>7, <1>a DEF Budgeted, PostLoad
  <2>8. CASE WaitLoad
    BY <1>3, <2>8, <1>a DEF Budgeted, WaitLoad
  <2>9. CASE NotLoaded
    BY <1>3, <2>9, <1>a DEF Budgeted, NotLoaded
  <2>10. CASE CreateStream
    BY <1>3, <2>10, <1>a DEF Budgeted, CreateStream
  <2>11. CASE PollCancel
    BY <1>3, <2>11, <1>a DEF Budgeted, PollCancel, StreamCancel
  <2>12. CASE ConsumeChunk
    BY <1>3, <2>12, <1>a DEF Budgeted, ConsumeChunk, StreamNext
  <2>13. CASE ConsumeNothing
    BY <1>3, <2>13, <1>a DEF Budgeted, ConsumeNothing
  <2>14. CASE CreateServer
    BY <1>3, <2>14, <1>a DEF Budgeted, CreateServer
  <2>15. CASE InstallServeHandler
    BY <1>3, <2>15, <1>a DEF Budgeted, InstallServeHandler
  <2>16. CASE ServerStops
    BY <1>3, <2>16, <1>a DEF Budgeted, ServerStops
  <2>17. CASE ForgetServer
    BY <1>3, <2>17, <1>a DEF Budgeted, ForgetServer
  <2>18. CASE RestoreSigint
    BY <1>3, <2>18, <1>a DEF Budgeted, RestoreSigint
  <2>19. CASE ReleaseStream
    BY <1>3, <2>19, <1>a DEF Budgeted, ReleaseStream, StreamRelease
  <2>20. CASE DestroyEngine
    BY <1>3, <2>20, <1>a DEF Budgeted, DestroyEngine
  <2>21. CASE JoinEngine
    BY <1>3, <2>21, <1>a DEF Budgeted, JoinEngine
  <2>22. CASE Exit
    BY <1>3, <2>22, <1>a DEF Budgeted, Exit
  <2>23. QED
    BY <1>3, <2>1, <2>2, <2>3, <2>4, <2>5, <2>6, <2>7, <2>8, <2>9, <2>10, <2>11, <2>12,
       <2>13, <2>14, <2>15, <2>16, <2>17, <2>18, <2>19, <2>20, <2>21, <2>22
       DEF Quiet
<1>4. CASE LoadEnds
  BY <1>4, <1>a DEF Budgeted, LoadEnds
<1>5. CASE Generate
  <2>1. EngineSteps /\ UNCHANGED <<cmd, opts, argv, pc, params>>
    BY <1>5, Generates
  <2>2. phase[Run] # "none"
    BY <2>1, <1>t, EngineMoves
  <2>3. cmd = "run" /\ opts.ok = TRUE /\ params.max_tokens = MaxTokensOf(opts)
    BY <2>2, <1>a DEF Budgeted
  <2>4. pc # "main"
    BY <2>2, <1>t DEF Owned, Early
  <2>5. argv # <<>> /\ opts = cli_parse("run", Tail(argv)) /\ argv \in Seq(Args)
    BY <2>3, <2>4, <1>b, <1>t, CliRunAssumption DEF Parsed, Commands
  <2>6. MaxTokensOf(opts) \in Int
    <3>1. Tail(argv) \in Seq(Args)
      BY <2>5
    <3>2. QED
      BY <2>3, <2>5, <3>1, MaxTokensAre
  <2>7. \/ sent' = sent
        \/ sent' = sent + 1 /\ sent < params.max_tokens
    BY <2>1 DEF EngineSteps
  <2> DEFINE m == MaxTokensOf(opts)
  <2>8. m' = m
    BY <2>1
  <2>9. sent' > 0 => sent' =< m
    <3>1. sent > 0 => sent =< m
      BY <1>a DEF Budgeted
    <3> HIDE DEF m
    <3>2. QED
      BY <1>t, <2>3, <2>6, <2>7, <3>1 DEF m
  <2>10. QED
    BY <2>1, <2>3, <2>8, <2>9 DEF Budgeted
<1>6. CASE GracePasses /\ UNCHANGED <<commandline, params>>
  BY <1>6, <1>a DEF Budgeted, GracePasses
<1>7. CASE Sigint
  BY <1>7, <1>a DEF Budgeted, Sigint, RunSigintHandler, ServeSigintHandler
<1>8. CASE UNCHANGED vars
  BY <1>8, <1>a DEF Budgeted, vars
<1> HIDE DEF gvars, streams, signals, engine, consumer, commandline, Goto
<1>9. QED
  BY <1>1, <1>2, <1>3, <1>4, <1>5, <1>6, <1>7, <1>8, Cases

(* A chunk is taken: all before it were tokens, so its place tells how     *)
(* many the engine has sent.                                               *)
LEMMA Taken ==
  ASSUME Inv, ConsumeChunk
  PROVE  LET c == Head(q[Run])
             n == Len(got[Run])
         IN  /\ pc = "stream_next" /\ n \in Nat /\ Len(got'[Run]) = n + 1
             /\ got'[Run][n + 1] = c /\ \A i \in 1..n : got'[Run][i] = "token"
             /\ printed + dropped + held = n
             /\ c = "token" => n + 1 =< sent
             /\ c \in {"stop", "length"} => sent = n /\ phase[Run] \in {"ended", "gone"}
<1> DEFINE c == Head(q[Run])
           g == got[Run]
           n == Len(g)
           h == g \o q[Run]
<1>1. /\ pc = "stream_next" /\ q[Run] # <<>>
      /\ got' = [got EXCEPT ![Run] = Append(g, c)]
  BY DEF ConsumeChunk, StreamNext
<1>2. /\ got \in [Reqs -> Seq(Chunks)] /\ q[Run] \in Seq(Chunks) /\ g \in Seq(Chunks)
      /\ Run \in Reqs /\ sent \in Nat /\ phase[Run] \in Phases
  BY CliRunAssumption DEF Inv, TypeInv, StreamTypes, Counts
<1>3. /\ \A i \in 1..n : g[i] = "token"
      /\ printed + dropped + held = n
  BY <1>1 DEF Inv, Counted, Loop
<1>4. n \in Nat /\ c \in Chunks /\ got'[Run] = Append(g, c)
  BY <1>1, <1>2
<1>5. Len(got'[Run]) = n + 1 /\ got'[Run][n + 1] = c /\ \A i \in 1..n : got'[Run][i] = "token"
  BY <1>2, <1>3, <1>4
<1>6. /\ h \in Seq(Chunks) /\ Len(h) = n + Len(q[Run]) /\ Len(q[Run]) \in Nat
      /\ Len(q[Run]) >= 1 /\ c = q[Run][1]
  BY <1>1, <1>2
<1>7. /\ \A i \in 1..n : h[i] = "token"
      /\ h[n + 1] = c
  <2>1. \A i \in 1..n : h[i] = g[i]
    BY <1>2, Joined
  <2>2. h[n + 1] = q[Run][(n + 1) - n]
    BY <1>2, <1>4, <1>6, Joined
  <2>3. (n + 1) - n = 1
    BY <1>4
  <2>4. QED
    BY <1>3, <1>6, <2>1, <2>2, <2>3
<1>8. Shape(h, phase[Run], sent)
  BY DEF Inv, Shaped, History
<1> HIDE DEF c, g, n, h
<1>9. Len(h) \in Nat /\ n + 1 =< Len(h) /\ n + 1 \in 1..Len(h)
  BY <1>4, <1>6
<1>10. ASSUME c = "token"
       PROVE  n + 1 =< sent
  <2>1. \A i \in 0..Len(h) : (\A j \in 1..i : h[j] = "token") => i =< sent
    BY <1>8 DEF Shape
  <2>2. \A j \in 1..(n + 1) : h[j] = "token"
    BY <1>4, <1>7, <1>10
  <2>3. n + 1 \in 0..Len(h)
    BY <1>4, <1>9
  <2>4. QED
    BY <2>1, <2>2, <2>3
<1>11. ASSUME c \in {"stop", "length"}
       PROVE  sent = n /\ phase[Run] \in {"ended", "gone"}
  <2>1. /\ phase[Run] \in {"ended", "gone"}
        /\ \/ sent = (n + 1) - 1
           \/ \E j \in 1..((n + 1) - 1) : h[j] \in Errors
    BY <1>7, <1>8, <1>9, <1>11 DEF Shape
  <2>2. (n + 1) - 1 = n
    BY <1>4
  <2>3. QED
    BY <1>7, <2>1, <2>2 DEF Errors
<1>12. QED
  BY <1>1, <1>3, <1>4, <1>5, <1>10, <1>11 DEF c, n, g

LEMMA CountedKept ==
  ASSUME Inv, [Next]_vars
  PROVE  Counted'
<1>a. Counted
  BY DEF Inv
<1>b. argv \in CommandLines
  BY DEF Inv, TypeInv, Places
<1>c. phase \in [Reqs -> Phases] /\ refs \in [Reqs -> Int] /\ Run \in Reqs
  BY CliRunAssumption DEF Inv, TypeInv, StreamTypes
<1>t. /\ StreamTypes /\ sent \in Nat /\ printed \in Nat /\ dropped \in Nat /\ held \in Nat
      /\ d \in BOOLEAN
  BY DEF Inv, TypeInv, Counts, Flags
<1> USE DEF gvars, streams, signals, engine, consumer, commandline, Goto, Early, Loop,
            Leaving, After
<1>1. CASE Dispatch /\ UNCHANGED <<argv, params>>
  <2>1. /\ pc = "main" /\ UNCHANGED <<got, printed, dropped, held, d, sent>>
        /\ pc' \in Commands \cup {"exit"}
    BY <1>1, <1>b, Dispatched, DispatchKeeps DEF Commands
  <2>2. QED
    BY <2>1, <1>a DEF Counted, Commands
<1>2. CASE PostGenerate /\ UNCHANGED commandline
  <2>1. /\ UNCHANGED <<got, printed, dropped, held, sent>> /\ pc = "engine_post"
        /\ pc' \in {"consume", "cleanup"}
    BY <1>2, PostedKeeps
  <2>2. got[Run] = <<>> /\ printed = 0 /\ dropped = 0 /\ held = 0
    BY <2>1, <1>a DEF Counted
  <2>3. QED
    BY <2>1, <2>2, <1>t DEF Counted
<1>3. CASE Quiet /\ UNCHANGED <<commandline, params>>
  <2>1. CASE CmdPull
    BY <1>3, <2>1, <1>a, <1>t DEF Counted, CmdPull
  <2>2. CASE CmdList
    BY <1>3, <2>2, <1>a, <1>t DEF Counted, CmdList
  <2>3. CASE PrepareServe
    BY <1>3, <2>3, <1>a, <1>t DEF Counted, PrepareServe
  <2>4. CASE PrepareRun
    BY <1>3, <2>4, <1>a, <1>t DEF Counted, PrepareRun
  <2>5. CASE InstallRunHandler
    BY <1>3, <2>5, <1>a, <1>t DEF Counted, InstallRunHandler
  <2>6. CASE EngineInit
    BY <1>3, <2>6, <1>a, <1>t DEF Counted, EngineInit
  <2>7. CASE PostLoad
    BY <1>3, <2>7, <1>a, <1>t DEF Counted, PostLoad
  <2>8. CASE WaitLoad
    BY <1>3, <2>8, <1>a, <1>t DEF Counted, WaitLoad
  <2>9. CASE NotLoaded
    BY <1>3, <2>9, <1>a, <1>t DEF Counted, NotLoaded
  <2>10. CASE CreateStream
    BY <1>3, <2>10, <1>a, <1>t DEF Counted, CreateStream
  <2>11. CASE PollCancel
    BY <1>3, <2>11, <1>a, <1>t DEF Counted, PollCancel, StreamCancel
  <2>12. CASE ConsumeChunk
    <3> DEFINE n == Len(got[Run])
               c == Head(q[Run])
    <3>1. /\ pc = "stream_next" /\ n \in Nat /\ Len(got'[Run]) = n + 1
          /\ got'[Run][n + 1] = c /\ \A i \in 1..n : got'[Run][i] = "token"
          /\ printed + dropped + held = n
          /\ c = "token" => n + 1 =< sent
      BY <2>12, Taken
    <3>2. sent' = sent
      BY <2>12 DEF ConsumeChunk
    <3>3. d = FALSE => held = 0
      BY <1>a DEF Counted
    <3>4. n =< sent
      BY <1>a, <3>1 DEF Counted
    <3>5. CASE c = "token" /\ PrintToken /\ pc' = "consume"
      <4>1. printed' + dropped' + held' = n + 1 /\ (d' = FALSE => held' = 0)
        BY <1>t, <3>1, <3>3, <3>5 DEF PrintToken
      <4>2. \A i \in 1..(n + 1) : got'[Run][i] = "token"
        BY <3>1, <3>5
      <4> HIDE DEF n, c
      <4>3. QED
        BY <3>1, <3>2, <3>5, <4>1, <4>2 DEF Counted
    <3>6. CASE Flush /\ pc' = "cleanup"
      <4>1. printed' + dropped' + held' = n /\ held' = 0
        BY <1>t, <3>1, <3>3, <3>6 DEF Flush
      <4> HIDE DEF n, c
      <4>2. QED
        BY <3>1, <3>2, <3>4, <3>6, <4>1 DEF Counted
    <3>7. CASE pc' = "cleanup" /\ held' = 0 /\ printed' = printed /\ dropped' = dropped
      <4>1. printed' + dropped' + held' =< n
        BY <1>t, <3>1, <3>7
      <4> HIDE DEF n, c
      <4>2. QED
        BY <1>t, <3>1, <3>2, <3>4, <3>7, <4>1 DEF Counted
    <3>8. QED
      BY <3>5, <3>6, <3>7, <2>12 DEF ConsumeChunk
  <2>13. CASE ConsumeNothing
    BY <1>3, <2>13, <1>a, <1>t DEF Counted, ConsumeNothing
  <2>14. CASE CreateServer
    BY <1>3, <2>14, <1>a, <1>t DEF Counted, CreateServer
  <2>15. CASE InstallServeHandler
    BY <1>3, <2>15, <1>a, <1>t DEF Counted, InstallServeHandler
  <2>16. CASE ServerStops
    BY <1>3, <2>16, <1>a, <1>t DEF Counted, ServerStops
  <2>17. CASE ForgetServer
    BY <1>3, <2>17, <1>a, <1>t DEF Counted, ForgetServer
  <2>18. CASE RestoreSigint
    BY <1>3, <2>18, <1>a, <1>t DEF Counted, RestoreSigint
  <2>19. CASE ReleaseStream
    BY <1>3, <2>19, <1>a, <1>t DEF Counted, ReleaseStream, StreamRelease
  <2>20. CASE DestroyEngine
    BY <1>3, <2>20, <1>a, <1>t DEF Counted, DestroyEngine
  <2>21. CASE JoinEngine
    BY <1>3, <2>21, <1>a, <1>t DEF Counted, JoinEngine
  <2>22. CASE Exit
    BY <1>3, <2>22, <1>a, <1>t DEF Counted, Exit
  <2>23. QED
    BY <1>3, <2>1, <2>2, <2>3, <2>4, <2>5, <2>6, <2>7, <2>8, <2>9, <2>10, <2>11, <2>12,
       <2>13, <2>14, <2>15, <2>16, <2>17, <2>18, <2>19, <2>20, <2>21, <2>22
       DEF Quiet
<1>4. CASE LoadEnds
  BY <1>4, <1>a, <1>t DEF Counted, LoadEnds
<1>5. CASE Generate
  <2>1. EngineSteps /\ UNCHANGED <<pc, printed, dropped, held, d>>
    BY <1>5, Generates
  <2>2. got' = got /\ (sent' = sent \/ sent' = sent + 1)
    BY <2>1, <1>t, EngineMoves DEF EngineSteps
  <2>3. QED
    BY <2>1, <2>2, <1>a, <1>t DEF Counted
<1>6. CASE GracePasses /\ UNCHANGED <<commandline, params>>
  BY <1>6, <1>a, <1>t DEF Counted, GracePasses
<1>7. CASE Sigint
  BY <1>7, <1>a, <1>t DEF Counted, Sigint, RunSigintHandler, ServeSigintHandler
<1>8. CASE UNCHANGED vars
  BY <1>8, <1>a, <1>t DEF Counted, vars
<1> HIDE DEF gvars, streams, signals, engine, consumer, commandline, Goto, Early, Loop,
             Leaving, After
<1>9. QED
  BY <1>1, <1>2, <1>3, <1>4, <1>5, <1>6, <1>7, <1>8, Cases

LEMMA FinishedKept ==
  ASSUME Inv, [Next]_vars
  PROVE  Finished'
<1>a. Finished
  BY DEF Inv
<1>b. argv \in CommandLines
  BY DEF Inv, TypeInv, Places
<1>c. phase \in [Reqs -> Phases] /\ refs \in [Reqs -> Int] /\ Run \in Reqs
  BY CliRunAssumption DEF Inv, TypeInv, StreamTypes
<1>t. /\ Placed /\ Counted /\ StreamTypes /\ sent \in Nat /\ printed \in Nat /\ dropped \in Nat
      /\ held \in Nat /\ d \in BOOLEAN
  BY DEF Inv, TypeInv, Counts, Flags
<1> USE DEF gvars, streams, signals, engine, consumer, commandline, Goto, Loop, Leaving,
            After
<1>1. CASE Dispatch /\ UNCHANGED <<argv, params>>
  <2>1. /\ pc = "main"
        /\ \/ pc' \in Commands
           \/ pc' = "exit" /\ rc' = 1
           \/ pc' = "exit" /\ cmd' \notin Commands
    BY <1>1, <1>b, Dispatched DEF Commands
  <2>2. QED
    BY <2>1 DEF Finished, Commands
<1>2. CASE PostGenerate /\ UNCHANGED commandline
  <2>1. pc = "engine_post" /\ rc' = rc
    BY <1>2, PostedKeeps
  <2>2. rc = 1
    BY <2>1, <1>t DEF Placed
  <2>3. QED
    BY <2>1, <2>2 DEF Finished
<1>3. CASE Quiet /\ UNCHANGED <<commandline, params>>
  <2>1. CASE CmdPull
    BY <1>3, <2>1, <1>a, <1>t DEF Finished, Placed, CmdPull
  <2>2. CASE CmdList
    BY <1>3, <2>2, <1>a, <1>t DEF Finished, Placed, CmdList
  <2>3. CASE PrepareServe
    BY <1>3, <2>3, <1>a, <1>t DEF Finished, Placed, PrepareServe
  <2>4. CASE PrepareRun
    BY <1>3, <2>4, <1>a, <1>t DEF Finished, Placed, PrepareRun
  <2>5. CASE InstallRunHandler
    BY <1>3, <2>5, <1>a, <1>t DEF Finished, Placed, InstallRunHandler
  <2>6. CASE EngineInit
    BY <1>3, <2>6, <1>a, <1>t DEF Finished, Placed, EngineInit
  <2>7. CASE PostLoad
    BY <1>3, <2>7, <1>a, <1>t DEF Finished, Placed, PostLoad
  <2>8. CASE WaitLoad
    BY <1>3, <2>8, <1>a, <1>t DEF Finished, Placed, WaitLoad
  <2>9. CASE NotLoaded
    BY <1>3, <2>9, <1>a, <1>t DEF Finished, Placed, NotLoaded
  <2>10. CASE CreateStream
    BY <1>3, <2>10, <1>a, <1>t DEF Finished, Placed, CreateStream
  <2>11. CASE PollCancel
    BY <1>3, <2>11, <1>a, <1>t DEF Finished, Placed, PollCancel, StreamCancel
  <2>12. CASE ConsumeChunk
    <3> DEFINE n == Len(got[Run])
               c == Head(q[Run])
    <3>1. /\ n \in Nat /\ Len(got'[Run]) = n + 1
          /\ got'[Run][n + 1] = c /\ \A i \in 1..n : got'[Run][i] = "token"
          /\ printed + dropped + held = n
          /\ c \in {"stop", "length"} => sent = n /\ phase[Run] \in {"ended", "gone"}
      BY <2>12, Taken
    <3>2. sent' = sent /\ phase' = phase
      BY <2>12 DEF ConsumeChunk
    <3>3. d = FALSE => held = 0
      BY <1>t DEF Counted
    <3>4. CASE c \in {"stop", "length"} /\ Flush /\ reason' = c
      <4>1. printed' + dropped' = n /\ held' = 0
        BY <1>t, <3>1, <3>3, <3>4 DEF Flush
      <4> HIDE DEF n
      <4>2. QED
        BY <3>1, <3>2, <3>4, <4>1 DEF Finished
    <3>5. CASE pc' = "consume" \/ rc' = 1 \/ reason' = "cancelled"
      BY <3>5 DEF Finished
    <3>6. QED
      BY <3>4, <3>5, <2>12 DEF ConsumeChunk, Terminals
  <2>13. CASE ConsumeNothing
    BY <1>3, <2>13, <1>a, <1>t DEF Finished, Placed, ConsumeNothing
  <2>14. CASE CreateServer
    BY <1>3, <2>14, <1>a, <1>t DEF Finished, Placed, CreateServer
  <2>15. CASE InstallServeHandler
    BY <1>3, <2>15, <1>a, <1>t DEF Finished, Placed, InstallServeHandler
  <2>16. CASE ServerStops
    BY <1>3, <2>16, <1>a, <1>t DEF Finished, Placed, ServerStops
  <2>17. CASE ForgetServer
    BY <1>3, <2>17, <1>a, <1>t DEF Finished, Placed, ForgetServer
  <2>18. CASE RestoreSigint
    BY <1>3, <2>18, <1>a, <1>t DEF Finished, Placed, RestoreSigint
  <2>19. CASE ReleaseStream
    BY <1>3, <2>19, <1>a, <1>t DEF Finished, Placed, ReleaseStream, StreamRelease
  <2>20. CASE DestroyEngine
    BY <1>3, <2>20, <1>a, <1>t DEF Finished, Placed, DestroyEngine
  <2>21. CASE JoinEngine
    BY <1>3, <2>21, <1>a, <1>t DEF Finished, Placed, JoinEngine
  <2>22. CASE Exit
    BY <1>3, <2>22, <1>a, <1>t DEF Finished, Placed, Exit
  <2>23. QED
    BY <1>3, <2>1, <2>2, <2>3, <2>4, <2>5, <2>6, <2>7, <2>8, <2>9, <2>10, <2>11, <2>12,
       <2>13, <2>14, <2>15, <2>16, <2>17, <2>18, <2>19, <2>20, <2>21, <2>22
       DEF Quiet
<1>4. CASE LoadEnds
  BY <1>4, <1>a, <1>t DEF Finished, Placed, LoadEnds
<1>5. CASE Generate
  <2>1. EngineSteps /\ UNCHANGED <<pc, cmd, rc, reason, printed, dropped, held>>
    BY <1>5, Generates
  <2>2. got' = got
    BY <2>1, <1>t, EngineMoves
  <2>3. phase[Run] \in {"ended", "gone"} => phase'[Run] \in {"ended", "gone"}
    BY <2>1, <1>t, EngineMoves
  <2>4. phase[Run] \in {"ended", "gone"} => sent' = sent
    BY <2>1 DEF EngineSteps, SendToken
  <2>5. QED
    BY <2>1, <2>2, <2>3, <2>4, <1>a DEF Finished
<1>6. CASE GracePasses /\ UNCHANGED <<commandline, params>>
  BY <1>6, <1>a, <1>t DEF Finished, Placed, GracePasses
<1>7. CASE Sigint
  BY <1>7, <1>a, <1>t DEF Finished, Placed, Sigint, RunSigintHandler, ServeSigintHandler
<1>8. CASE UNCHANGED vars
  BY <1>8, <1>a, <1>t DEF Finished, Placed, vars
<1> HIDE DEF gvars, streams, signals, engine, consumer, commandline, Goto, Loop, Leaving,
             After
<1>9. QED
  BY <1>1, <1>2, <1>3, <1>4, <1>5, <1>6, <1>7, <1>8, Cases

-----------------------------------------------------------------------------
LEMMA InvKept == Inv /\ [Next]_vars => Inv'
<1> SUFFICES ASSUME Inv, [Next]_vars  PROVE Inv'
  OBVIOUS
<1>1. TypeInv'
  BY PlacesKept, CountsKept, FlagsKept, StreamTypesKept DEF TypeInv
<1>2. QED
  BY <1>1, OwnedKept, EngagedKept, PlacedKept, PressedKept, BlamedKept, ParsedKept, ShapedKept,
     CountedKept, BudgetedKept, FinishedKept DEF Inv

LEMMA InvHolds == Spec => []Inv
  BY InitInv, InvKept, PTL DEF Spec

(* The drivers keep their types: for every command line of every length,   *)
(* any number of Ctrl-C and tokens, every variable of cmd_run, cmd_serve   *)
(* and cli_run_consume keeps its type, and the program counter its labels. *)
THEOREM CliTypeCorrect == Spec => []TypeInv
<1>1. Inv => TypeInv
  BY DEF Inv
<1>2. QED
  BY <1>1, InvHolds, PTL

(* However cmd_run and cmd_serve end, and wherever Ctrl-C came, main        *)
(* returns with the stream's last reference given up and the engine joined; *)
(* neither thread reaches a stream that is gone.                            *)
THEOREM CommandLeavesNothing == Spec => []LeavesNothing
<1>1. ASSUME Inv  PROVE LeavesNothing
  <2>1. Places /\ StreamTypes /\ Owned /\ Engaged
    BY <1>1 DEF Inv, TypeInv
  <2>2. phase[Run] \in Phases /\ refs[Run] \in Int /\ EngineRef \in {0, 1}
    BY <2>1, CliRunAssumption DEF StreamTypes, EngineRef
  <2>3. ASSUME code \in {"0", "1", "130"}
        PROVE  refs[Run] = 0 /\ phase[Run] \in {"none", "gone"} /\ eng # "thread"
    <3>1. pc = "exited" /\ eng # "thread"
      BY <2>1, <2>3 DEF Engaged
    <3>2. phase[Run] \notin Active
      BY <2>1, <3>1 DEF Engaged
    <3>3. refs[Run] = 0
      BY <2>1, <3>1, <3>2 DEF Owned, Leaving, EngineRef
    <3>4. QED
      BY <2>2, <3>1, <3>2, <3>3 DEF Phases, Active
  <2>4. ASSUME phase[Run] \in {"held", "failing", "ended", "silent"}
        PROVE  refs[Run] >= 1
    <3>1. EngineRef = 1 /\ phase[Run] # "none"
      BY <2>4 DEF EngineRef, Active
    <3>2. pc \in Loop \cup {"cleanup", "release"} \cup Leaving
      BY <2>1, <3>1 DEF Owned, Places, After
    <3>3. QED
      BY <2>1, <3>1, <3>2 DEF Owned
  <2>5. pc \in {"consume", "stream_next"} => refs[Run] >= 1
    BY <2>1, <2>2 DEF Owned, Loop
  <2>6. QED
    BY <2>3, <2>4, <2>5 DEF LeavesNothing
<1>2. QED
  BY <1>1, InvHolds, PTL

(* --max-tokens is a number when the parser accepted it.                   *)
LEMMA LimitIsRead ==
  ASSUME Inv, opts.ok = TRUE, "--max-tokens" \in DOMAIN opts.value
  PROVE  Long[opts.value["--max-tokens"]] \in Int
<1>1. Parsed /\ argv \in Seq(Args)
  BY CliRunAssumption DEF Inv, TypeInv, Places
<1>2. pc # "main"
  BY <1>1 DEF Parsed, Unread
<1>3. cmd \in Commands /\ argv # <<>> /\ opts = cli_parse(cmd, Tail(argv))
  BY <1>1, <1>2 DEF Parsed
<1> DEFINE s == SyntaxOf[cmd]
           p == Read(s, Tail(argv))
<1>4. cmd \in {"serve", "run", "pull", "list"} /\ Tail(argv) \in Seq(Args) /\ IsSyntax(s)
  BY <1>1, <1>3, Syntaxes DEF Commands
<1>5. opts.value = p.value /\ p.ok = TRUE
  BY <1>3, <1>4, ParsesAre
<1>6. /\ \A o \in DOMAIN p.value : p.value[o] \in s.valued[o]
      /\ p.value \in Values(s)
  BY <1>4, <1>5, ReadMeans DEF Parses
<1>7. "--max-tokens" \in DOMAIN s.valued
  BY <1>5, <1>6 DEF Values
<1>8. cmd = "run"
  BY <1>4, <1>7 DEF SyntaxOf, ServeSyntax, PullSyntax, ListSyntax
<1>9. s.valued["--max-tokens"] = Longs(0, INT_MAX)
  BY <1>8 DEF SyntaxOf, RunSyntax
<1>10. QED
  BY <1>5, <1>6, <1>9, CliArgsAssumption DEF Longs

(* cmd_run returns 0 only after cli_run_consume has written every token the *)
(* engine sent, but for what a failing detokenizer took with it; and it     *)
(* never writes more than --max-tokens.                                     *)
THEOREM NothingIsLost == Spec => []NothingLost
<1>1. ASSUME Inv  PROVE NothingLost
  <2>1. /\ Engaged /\ Blamed /\ Finished /\ Counted /\ Budgeted
        /\ sent \in Nat /\ printed \in Nat /\ dropped \in Nat /\ held \in Nat
    BY <1>1 DEF Inv, TypeInv, Counts
  <2>2. ASSUME code = "0", cmd = "run"  PROVE printed + dropped = sent
    <3>1. pc \in After /\ rc = 0 /\ reason # "cancelled"
      BY <2>1, <2>2 DEF Engaged, Blamed, After, Leaving
    <3>2. QED
      BY <2>1, <2>2, <3>1 DEF Finished
  <2> DEFINE n == Long[opts.value["--max-tokens"]]
  <2>3. ASSUME opts.ok = TRUE, "--max-tokens" \in DOMAIN opts.value, n > 0
        PROVE  printed =< n
    <3>1. n \in Int
      BY <1>1, <2>3, LimitIsRead
    <3>2. MaxTokensOf(opts) = IF n <= 0 THEN INT_MAX ELSE n
      BY <2>3 DEF MaxTokensOf
    <3>3. sent > 0 => sent =< MaxTokensOf(opts)
      BY <2>1 DEF Budgeted
    <3>4. printed + dropped + held =< sent
      BY <2>1 DEF Counted
    <3> HIDE DEF n
    <3>5. QED
      BY <2>1, <2>3, <3>1, <3>2, <3>3, <3>4
  <2>4. opts.ok \in BOOLEAN
    BY <1>1 DEF Inv, Parsed
  <2>5. QED
    BY <2>2, <2>3, <2>4 DEF NothingLost
<1>2. QED
  BY <1>1, InvHolds, PTL

(* All that was taken but the terminal is a token.                         *)
LEMMA TokensCounted ==
  ASSUME Inv, got[Run] \in Seq(Chunks), Len(got[Run]) = sent + 1, sent \in Nat,
         got[Run][sent + 1] \in {"stop", "length"}, \A i \in 1..sent : got[Run][i] = "token"
  PROVE  TokensTaken = sent /\ got[Run][Len(got[Run])] \in {"stop", "length"}
<1>1. {i \in DOMAIN got[Run] : got[Run][i] = "token"} = 1..sent
  <2>1. DOMAIN got[Run] = 1..(sent + 1)
    OBVIOUS
  <2>2. got[Run][sent + 1] # "token"
    OBVIOUS
  <2>3. ASSUME NEW i  PROVE i \in 1..sent <=> i \in 1..(sent + 1) /\ i # sent + 1
    OBVIOUS
  <2>4. QED
    BY <2>1, <2>2, <2>3
<1>2. Cardinality(1..sent) = sent
  BY FS_Interval
<1>3. QED
  BY <1>1, <1>2 DEF TokensTaken

(* The exit status of main tells what happened: 0 after the whole output or *)
(* a stop, 130 after a Ctrl-C, 1 after a failure, for which a command line  *)
(* that is not of the usage text counts.                                    *)
THEOREM ExitIsHonest == Spec => []ExitHonest
<1>1. ASSUME Inv  PROVE ExitHonest
  <2>1. /\ Places /\ Engaged /\ Placed /\ Pressed /\ Blamed /\ Finished /\ Parsed
        /\ sent \in Nat /\ got[Run] \in Seq(Chunks) /\ opts.ok \in BOOLEAN
        /\ argv \in Seq(Args) /\ rc \in {0, 1} /\ failed \in BOOLEAN
    BY <1>1, CliRunAssumption
       DEF Inv, TypeInv, Counts, StreamTypes, Parsed, Places, Flags
  <2>2. code = "0" => pc = "exited" /\ pc \in After /\ rc = 0 /\ reason # "cancelled"
    BY <2>1 DEF Engaged, Blamed, After, Leaving
  <2>3. code \in {"130", "_exit_130", "killed"} => sigints > 0
    BY <2>1 DEF Pressed
  <2>4. code = "1" => failed
    BY <2>1 DEF Blamed
  <2>5. ASSUME code = "0", cmd = "run"
        PROVE  /\ got[Run][Len(got[Run])] \in {"stop", "length"}
               /\ TokensTaken = sent /\ held = 0
    BY <1>1, <2>1, <2>2, <2>5, TokensCounted DEF Finished
  <2>6. code = "0" /\ cmd = "serve" => sigints > 0
    BY <2>1, <2>2 DEF Pressed
  <2>7. ASSUME code = "0", cmd = "pull"
        PROVE  Len(opts.other) = 1
    <3>1. opts.other # <<>> /\ opts.ok = TRUE
      BY <2>1, <2>2, <2>7 DEF Parsed
    <3>2. opts = cli_parse("pull", Tail(argv)) /\ Tail(argv) \in Seq(Args)
      BY <2>1, <2>2, <2>7 DEF Parsed, Commands
    <3> DEFINE s == SyntaxOf["pull"]
               p == Read(s, Tail(argv))
    <3>3. s = PullSyntax /\ IsSyntax(s)
      BY Syntaxes DEF SyntaxOf
    <3>4. opts.other = p.other /\ p.ok = TRUE
      BY <3>1, <3>2, ParsesAre
    <3>5. p.other \in Seq(Args) /\ Len(p.other) =< s.others
      BY <3>2, <3>3, <3>4, ReadMeans DEF Parses
    <3>6. s.others = 1
      BY <3>3 DEF PullSyntax
    <3> HIDE DEF p, s
    <3>7. Len(p.other) \in Nat /\ Len(p.other) # 0
      BY <3>1, <3>4, <3>5
    <3>8. Len(p.other) = 1
      <4> DEFINE n == Len(p.other)
      <4>1. n \in Nat /\ n # 0 /\ n =< 1
        BY <3>5, <3>6, <3>7
      <4> HIDE DEF n
      <4>2. n = 1
        BY <4>1
      <4>3. QED
        BY <4>2 DEF n
    <3>9. QED
      BY <3>4, <3>8
  <2>8. ASSUME pc # "main", cmd \in Commands
        PROVE  AsUsage(cmd, Tail(argv), opts)
    <3>1. opts = cli_parse(cmd, Tail(argv)) /\ Tail(argv) \in Seq(Args)
      BY <2>1, <2>8 DEF Parsed
    <3>2. QED
      BY <2>8, <3>1, ParsersFollowUsage DEF Commands
  <2>9. pc \in {"serve", "run", "pull", "list"} => AsUsage(cmd, Tail(argv), opts) /\ ~failed
    <3>1. pc \in {"serve", "run", "pull", "list"} => pc # "main" /\ cmd \in Commands
      BY <2>1 DEF Placed, Commands
    <3>2. pc \in {"serve", "run", "pull", "list"} => failed = FALSE
      BY <2>1 DEF Blamed
    <3>3. QED
      BY <2>8, <3>1, <3>2
  <2>10. pc = "exit" /\ ~opts.ok =>
            rc = 1 /\ (cmd \in DOMAIN SyntaxOf => AsUsage(cmd, Tail(argv), opts))
    <3>1. DOMAIN SyntaxOf = Commands
      BY DEF SyntaxOf, Commands
    <3>2. ~opts.ok => opts.ok = FALSE
      BY <2>1
    <3>3. opts.ok = FALSE => rc = 1
      BY <2>1 DEF Parsed
    <3>4. QED
      BY <2>8, <3>1, <3>2, <3>3
  <2>11. QED
    BY <2>3, <2>4, <2>5, <2>6, <2>7, <2>9, <2>10 DEF ExitHonest
<1>2. QED
  BY <1>1, InvHolds, PTL
=============================================================================

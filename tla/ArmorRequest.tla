---------------------------- MODULE ArmorRequest ----------------------------
(***************************************************************************)
(* What the rules of Cloud Armor see of a request (services/compute/armor):  *)
(* its client addresses, and as much of its body as is inspected.            *)
(***************************************************************************)
EXTENDS Absent, Naturals, Sequences, SequencesExt

(***************************************************************************)
(* Addresses as the rules of Cloud Armor compare them: whether a range       *)
(* contains an address (ipInCidr()), on words of WordWidth bits as the       *)
(* language shifts and masks them, and the one text an IPv6 address is       *)
(* given whatever its spelling (canonicalizeIp()), which source ranges are   *)
(* stored in and rate limits count by.                                       *)
(***************************************************************************)

CONSTANTS
  WordWidth,      (* 32 for IPv4, 128 for IPv6                               *)
  GroupValues     (* what the eight groups of an IPv6 address may be         *)

Bits == 0 .. WordWidth - 1

ASSUME AddressAssumption ==
  /\ WordWidth \in Nat \ {0}
  /\ 0 \in GroupValues /\ GroupValues \subseteq 0 .. 65535

(* A word is the set of its bits that are 1: "&" is \cap, ~0 is Bits.        *)
Words == SUBSET Bits

(* "<<" takes its count modulo the width of the word.                        *)
ShiftLeft(word, count) == {b + (count % WordWidth) : b \in word} \cap Bits

Mask(prefix) == IF prefix = 0 THEN {} ELSE ShiftLeft(Bits, WordWidth - prefix)

InCidr(ip, network, prefix) == (ip \cap Mask(prefix)) = (network \cap Mask(prefix))

(* ... which is to say that the first `prefix` bits agree.                   *)
FirstBits(prefix) == (WordWidth - prefix) .. (WordWidth - 1)

SamePrefix(ip, network, prefix) ==
  \A b \in FirstBits(prefix) : b \in ip <=> b \in network

-----------------------------------------------------------------------------
Groups == [1 .. 8 -> GroupValues]
Zeros(n) == [i \in 1 .. n |-> 0]

(* A text: the groups before and after its "::", when it has one, and the    *)
(* dotted octets it ends in, when it does.                                   *)
Spelt(left, compressed, right, dotted) ==
  [left |-> left, compressed |-> compressed, right |-> right, dotted |-> dotted]

(* parseIpv6Groups() of a text without dots.                                 *)
HexGroups(text) ==
  LET missing == 8 - (Len(text.left) + Len(text.right)) IN
  CASE ~text.compressed -> IF Len(text.left) = 8 THEN text.left ELSE NoRow
    [] text.compressed -> IF Len(text.left) + Len(text.right) > 7 THEN NoRow
                          ELSE text.left \o Zeros(missing) \o text.right

(* parseIpv6Mapped(): the text before the octets with ":0:0" after it, whose *)
(* last two groups the octets then replace.                                  *)
ParsedIpv6(text) ==
  IF text.dotted = <<>> THEN HexGroups(text)
  ELSE LET head == IF text.compressed THEN [text EXCEPT !.right = @ \o <<0, 0>>]
                                      ELSE [text EXCEPT !.left = @ \o <<0, 0>>]
           o == text.dotted IN
       IF HexGroups(head) = NoRow THEN NoRow
       ELSE [HexGroups(head) EXCEPT ![7] = 256 * o[1] + o[2], ![8] = 256 * o[3] + o[4]]

Octets(groups) == <<groups[7] \div 256, groups[7] % 256, groups[8] \div 256, groups[8] % 256>>

ZeroRuns(groups) ==
  {r \in (1 .. 8) \X (1 .. 8) : r[1] <= r[2] /\ \A i \in r[1] .. r[2] : groups[i] = 0}

RunLength(r) == r[2] - r[1] + 1

(* The longest run of zeros, the first of those.                             *)
BestRun(groups) ==
  CHOOSE r \in ZeroRuns(groups) : \A other \in ZeroRuns(groups) :
    \/ RunLength(r) > RunLength(other)
    \/ RunLength(r) = RunLength(other) /\ r[1] <= other[1]

IsMapped(groups) == groups[6] = 65535 /\ \A i \in 1 .. 5 : groups[i] = 0

Formatted(groups) ==
  LET g == [i \in 1 .. 8 |-> groups[i]]
      r == BestRun(groups) IN
  IF IsMapped(groups) THEN Spelt(<<>>, TRUE, <<65535>>, Octets(groups))
  ELSE IF ZeroRuns(groups) = {} \/ RunLength(r) < 2 THEN Spelt(g, FALSE, <<>>, <<>>)
  ELSE Spelt(SubSeq(g, 1, r[1] - 1), TRUE, SubSeq(g, r[2] + 1, 8), <<>>)

(* The texts RFC 4291 has for an address: all groups, any run of zeros left  *)
(* out, and either of them with the last two groups as octets.               *)
Spellings(groups) ==
  LET texts(g) ==
        {Spelt(g, FALSE, <<>>, <<>>)}
        \cup {Spelt(SubSeq(g, 1, r[1] - 1), TRUE, SubSeq(g, r[2] + 1, Len(g)), <<>>) :
                r \in {x \in ZeroRuns(groups) : x[2] <= Len(g)}} IN
  texts([i \in 1 .. 8 |-> groups[i]])
  \cup {[text EXCEPT !.dotted = Octets(groups)] : text \in texts([i \in 1 .. 6 |-> groups[i]])}

-----------------------------------------------------------------------------
VARIABLE address   (* the request and the range, or the text, at hand        *)

AddressInit == address = NoRow

ComparesRange(ip, network, prefix) ==
  address' = [kind |-> "range", ip |-> ip, network |-> network, prefix |-> prefix]

ReadsAddress(groups, text) ==
  address' = [kind |-> "text", groups |-> [i \in 1 .. 8 |-> groups[i]], text |-> text]

AddressAnswered == address # NoRow /\ address' = NoRow

AddressNext ==
  \/ /\ address = NoRow
     /\ \/ \E ip, network \in Words : \E prefix \in 0 .. WordWidth :
             ComparesRange(ip, network, prefix)
        \/ \E groups \in Groups : \E text \in Spellings(groups) : ReadsAddress(groups, text)
  \/ AddressAnswered

AddressSpec == AddressInit /\ [][AddressNext]_address

AddressKind(kind) == address # NoRow /\ address.kind = kind

(* A range selects the addresses that begin with its prefix, "/0" all of     *)
(* them although a shift by the whole width shifts nothing, and "/32" one    *)
(* (request.ts lines 46-53).                                                 *)
RangesMatchByPrefix ==
  AddressKind("range") =>
    (InCidr(address.ip, address.network, address.prefix)
       <=> SamePrefix(address.ip, address.network, address.prefix))

(* However an address is spelt, it is read as the same groups and written as *)
(* one text, which reads as those groups again: two spellings are one range  *)
(* and one rate-limit key.                                                   *)
OneTextPerAddress ==
  AddressKind("text") =>
    /\ ParsedIpv6(address.text) = address.groups
    /\ ParsedIpv6(Formatted(address.groups)) = address.groups

(* Addresses and ranges mean one thing however they are written.             *)
AddressInvariant == RangesMatchByPrefix /\ OneTextPerAddress
-----------------------------------------------------------------------------
(***************************************************************************)
(* The body that Cloud Armor inspects (withInspectedBody()): a JSON object   *)
(* cut off behind the inspection window, of which only members that are      *)
(* complete may become request.params.  A text is a sequence of characters;  *)
(* keys are one letter, and what JSON.parse() makes of a value is its text.  *)
(***************************************************************************)

CONSTANTS
  BodyKeys,          (* the names of members                                     *)
  ValueTexts,    (* the texts of values                                      *)
  MaxMembers     (* bound: members of a body                                 *)

ASSUME ArmorBodyAssumption ==
  BodyKeys \subseteq STRING /\ ValueTexts \subseteq Seq(STRING) /\ MaxMembers \in Nat

Quote == "\""
Backslash == "\\"
ArmorDigits == {"0", "1", "2", "3", "4", "5", "6", "7", "8", "9"}
Opening == {"{", "["}
Closing == {"}", "]"}
CloserOf(ch) == IF ch = "{" THEN "}" ELSE "]"

(* Positions are those of the text; past its end there is nothing.           *)
CharAt(s, i) == IF i <= Len(s) THEN s[i] ELSE ""

RECURSIVE SkipWs(_, _)
SkipWs(s, i) == IF CharAt(s, i) = " " THEN SkipWs(s, i + 1) ELSE i

(* The position behind a string that begins at i - 1, 0 if it has no end.    *)
RECURSIVE EndOfString(_, _)
EndOfString(s, i) ==
  CASE i > Len(s) -> 0
    [] CharAt(s, i) = Backslash /\ CharAt(s, i + 1) # "u" ->
         IF i + 1 > Len(s) THEN 0 ELSE EndOfString(s, i + 2)
    [] CharAt(s, i) = Backslash /\ CharAt(s, i + 1) = "u" ->
         IF i + 5 > Len(s) THEN 0 ELSE EndOfString(s, i + 6)
    [] CharAt(s, i) = Quote -> i + 1
    [] OTHER -> EndOfString(s, i + 1)

(* endOfJsonContainer(), with the closers still awaited.                     *)
RECURSIVE EndOfContainer(_, _, _)
EndOfContainer(s, i, closers) ==
  CASE i > Len(s) -> 0
    [] CharAt(s, i) = Quote ->
         IF EndOfString(s, i + 1) = 0 THEN 0 ELSE EndOfContainer(s, EndOfString(s, i + 1), closers)
    [] CharAt(s, i) \in Opening -> EndOfContainer(s, i + 1, <<CloserOf(CharAt(s, i))>> \o closers)
    [] CharAt(s, i) \in Closing ->
         IF closers = <<>> THEN 0
         ELSE IF Head(closers) # CharAt(s, i) THEN 0
         ELSE IF Len(closers) = 1 THEN i + 1
         ELSE EndOfContainer(s, i + 1, Tail(closers))
    [] OTHER -> EndOfContainer(s, i + 1, closers)

RECURSIVE SkipDigits(_, _)
SkipDigits(s, i) == IF CharAt(s, i) \in ArmorDigits THEN SkipDigits(s, i + 1) ELSE i

IntegerEnd(s, i) ==
  IF CharAt(s, i) \notin ArmorDigits THEN 0
  ELSE IF CharAt(s, i) = "0" THEN i + 1 ELSE SkipDigits(s, i)

FractionEnd(s, i) ==
  IF i = 0 \/ CharAt(s, i) # "." THEN i
  ELSE IF CharAt(s, i + 1) \notin ArmorDigits THEN 0 ELSE SkipDigits(s, i + 1)

ExponentEnd(s, i) ==
  IF i = 0 \/ CharAt(s, i) \notin {"e", "E"} THEN i
  ELSE LET digits == IF CharAt(s, i + 1) \in {"+", "-"} THEN i + 2 ELSE i + 1 IN
       IF CharAt(s, digits) \notin ArmorDigits THEN 0 ELSE SkipDigits(s, digits)

LiteralWords == {<<"t", "r", "u", "e">>, <<"f", "a", "l", "s", "e">>, <<"n", "u", "l", "l">>}

EndOfLiteral(s, i) ==
  LET words == {w \in LiteralWords : IsPrefix(w, SubSeq(s, i, Len(s)))} IN
  IF words # {} THEN i + Len(CHOOSE w \in words : TRUE)
  ELSE ExponentEnd(s, FractionEnd(s, IntegerEnd(s, IF CharAt(s, i) = "-" THEN i + 1 ELSE i)))

(* A number that ends where the text does may go on: "12" of "123".          *)
EndOfScalar(s, i) ==
  LET end == EndOfLiteral(s, i) IN
  IF end # 0 /\ CharAt(s, SkipWs(s, end)) \in {",", "}", "]"} THEN end ELSE 0

EndOfValue(s, i) ==
  CASE CharAt(s, i) = Quote -> EndOfString(s, i + 1)
    [] CharAt(s, i) \in Opening -> EndOfContainer(s, i, <<>>)
    [] OTHER -> EndOfScalar(s, i)

(* parseTruncatedJsonObject(), from behind the brace and what was found.     *)
RECURSIVE MembersFrom(_, _, _)
MembersFrom(s, from, found) ==
  LET i == SkipWs(s, from)
      colon == SkipWs(s, EndOfString(s, i + 1))
      value == SkipWs(s, colon + 1) IN
  CASE CharAt(s, i) = "," -> MembersFrom(s, i + 1, found)
    [] CharAt(s, i) = Quote ->
         IF EndOfString(s, i + 1) = 0 THEN found
         ELSE IF CharAt(s, colon) # ":" \/ EndOfValue(s, value) = 0 THEN found
         ELSE MembersFrom(s, EndOfValue(s, value),
                Append(found, [key |-> CharAt(s, i + 1),
                               text |-> SubSeq(s, value, EndOfValue(s, value) - 1)]))
    [] CharAt(s, i) \notin {",", Quote} -> found

(* jsonParamString(): null is no parameter; of one key the last value stays. *)
ParamsOf(members) ==
  [key \in {m.key : m \in {x \in Range(members) : x.text # <<"n", "u", "l", "l">>}} |->
     LET last == CHOOSE n \in DOMAIN members :
                   /\ members[n].key = key /\ members[n].text # <<"n", "u", "l", "l">>
                   /\ \A later \in n + 1 .. Len(members) :
                        members[later].key # key \/ members[later].text = <<"n", "u", "l", "l">>
     IN members[last].text]

InspectedParams(s) ==
  IF CharAt(s, SkipWs(s, 1)) # "{" THEN ParamsOf(<<>>)
  ELSE ParamsOf(MembersFrom(s, SkipWs(s, 1) + 1, <<>>))

-----------------------------------------------------------------------------
Members == [key : BodyKeys, text : ValueTexts]

(* The text of a member, and of an object that ends in a closing brace.      *)
MemberText(m) == <<Quote, m.key, Quote, ":", " ">> \o m.text
BodyText(members) ==
  <<"{">> \o FoldLeft(LAMBDA text, n : text \o (IF n = 1 THEN <<>> ELSE <<",">>)
                                          \o MemberText(members[n]),
                      <<>>, [n \in DOMAIN members |-> n])
  \o <<"}">>

(* Where the n-th member ends: a scalar only with what follows it.           *)
MemberEnd(members, n) ==
  LET text == Len(BodyText(SubSeq(members, 1, n))) - 1 IN
  IF members[n].text[1] \in {Quote} \cup Opening THEN text ELSE text + 1

CompleteMembers(members, window) ==
  SelectSeq([n \in DOMAIN members |-> n], LAMBDA n : MemberEnd(members, n) <= window)

VARIABLE inspection  (* the members of a body, the window, what was found    *)

ArmorBodyInit == inspection = NoRow

(* mergeParams() of a body of type application/json: what JSON.parse() takes,*)
(* a whole object, never comes to parseTruncatedJsonObject().                *)
InspectsBody(members, window) ==
  /\ window <= Len(BodyText(members))
  /\ inspection' = [members |-> members, window |-> window,
                    params |-> IF window = Len(BodyText(members)) THEN ParamsOf(members)
                               ELSE InspectedParams(SubSeq(BodyText(members), 1, window))]

BodyInspected == inspection # NoRow /\ inspection' = NoRow

ArmorBodyNext ==
  \/ /\ inspection = NoRow
     /\ \E n \in 0 .. MaxMembers : \E members \in [1 .. n -> Members] :
          \E window \in 0 .. Len(BodyText(members)) : InspectsBody(members, window)
  \/ BodyInspected

ArmorBodySpec == ArmorBodyInit /\ [][ArmorBodyNext]_inspection

(* "Body-phase rules cannot see fields past the window" (request.ts lines    *)
(* 92-96), and see each that is complete before it, with all of its value:   *)
(* a string with escapes, a container with braces in its strings, a number   *)
(* that might have gone on.                                                  *)
WindowShowsWholeMembers ==
  inspection # NoRow =>
    LET members == inspection.members
        whole == CompleteMembers(members, inspection.window) IN
    inspection.params = ParamsOf([n \in DOMAIN whole |-> members[whole[n]]])
=============================================================================

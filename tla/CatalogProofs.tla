--------------------------- MODULE CatalogProofs ---------------------------
(***************************************************************************)
(* Theorems about Catalog, for any number of calls and configurations.     *)
(***************************************************************************)
EXTENDS Catalog, SequenceTheorems, TLAPS

VersionRow == [config : Configs, published : BOOLEAN]
RouteRow == [lifecycle : {"absent", "draft", "published", "disabled"}, active : Nat, version : Nat]
SecretRow == [status : {"absent", "active", "revoked"}, version : Nat, parent : Secrets \cup {NoCredential}]
ItemStates(i) == Lifecycles(i) \cup (IF i = "policy" THEN {"absent"} ELSE {})

\* RouteIsWhole, and a route that is not there has no versions.
RouteFits(route, numbered) ==
    /\ route \in RouteRow /\ numbered \in Seq(VersionRow) /\ route.active \in 0 .. Len(numbered)
    /\ route = NoRoute => numbered = <<>>
    /\ route.lifecycle = "published" => route.active # 0
    /\ route.active # 0 => numbered[route.active].published
    /\ \A m, n \in 1 .. Len(numbered) :
           numbered[m].published /\ numbered[n].published /\ m # n => numbered[m].config # numbered[n].config

CatalogRows ==
    /\ RouteFits(published, versions)
    /\ item = [i \in Items |-> item[i]] /\ \A i \in Items : item[i] \in [state : ItemStates(i), version : Nat]
    /\ credential \in [Secrets -> SecretRow]

\* What a call asks for is there.
CommandFits(m, numbered, secrets) ==
    /\ m.kind \in {"create_route", "publish", "rollback", "lifecycle", "change", "create_credential",
                   "rotate", "revoke"}
    /\ m.kind \in {"create_route", "publish"} => m.config \in Configs
    /\ m.kind = "rollback" => m.number \in 1 .. Len(numbered)
    /\ m.kind = "lifecycle" => m.to \in {"draft", "published", "disabled"}
    /\ m.kind = "change" => m.item \in Items /\ m.to \in Lifecycles(m.item)
    /\ m.kind \in {"rotate", "revoke"} =>
           m.credential \in Secrets /\ secrets[m.credential].status # "absent"

Row(m, route, items, secrets) ==
    CASE m.kind = "change" -> items[m.item]
      [] m.kind \in {"rotate", "revoke"} -> secrets[m.credential]
      [] OTHER -> route

\* A version names one state of a row: what a handler has read is either the
\* present row or an older one.
Seen(row, present) ==
    row.version \in Nat /\ row.version <= present.version /\ (row.version = present.version => row = present)

\* What a handler has found before it writes.
Found(a, numbered) ==
    /\ a.command.kind # "create_credential"
    /\ a.command.kind = "publish" => a.seen \in 0 .. Len(numbered)
    /\ a.command.kind = "rollback" => numbered[a.command.number].published
    /\ a.command.kind = "lifecycle" /\ a.command.to = "published" => a.row.active # 0
    /\ a.command.kind = "change" /\ a.command.item # "policy" => a.row.state # "disabled"
    /\ a.command.kind \in {"rotate", "revoke"} => a.row.status # "revoked"

AskFits(a, route, numbered, items, secrets) ==
    /\ a.at \in {"new", "read", "list", "write", "over"}
    /\ a.at \in {"read", "list", "write"} =>
           /\ {"at", "command", "named", "row", "seen", "answer"} \subseteq DOMAIN a
           /\ CommandFits(a.command, numbered, secrets)
           /\ Seen(a.row, Row(a.command, route, items, secrets))
    /\ a.at \in {"list", "write"} /\ a.command.kind = "publish" => a.row # NoRoute
    /\ a.at = "write" => Found(a, numbered)

AsksKnow ==
    /\ asked = [c \in CatalogCalls |-> asked[c]]
    /\ \A c \in CatalogCalls :
           /\ AskFits(asked[c], published, versions, item, credential)
           /\ asked[c].at # "over" => credential[c] = NoSecret

CatalogInv == CatalogRows /\ LineageIsLinear /\ AsksKnow

-----------------------------------------------------------------------------
(* Rows move on, and what a handler knows stays true.                      *)

Moves(old, new) == new = old \/ new.version = old.version + 1
Extends(old, new) == Len(old) <= Len(new) /\ \A n \in 1 .. Len(old) : new[n] = old[n]
RowsMoveOn ==
    /\ Moves(published, published') /\ Extends(versions, versions')
    /\ \A i \in Items : Moves(item[i], item'[i])
    /\ \A s \in Secrets :
           /\ Moves(credential[s], credential'[s])
           /\ credential[s].status # "absent" => credential'[s].status # "absent"

LEMMA RowIsTheRow == \A m : RowOf(m) = Row(m, published, item, credential)
  BY DEF RowOf, Row

LEMMA RowTypes ==
    ASSUME CatalogRows, NEW m, CommandFits(m, versions, credential)
    PROVE  Row(m, published, item, credential).version \in Nat
<1>1. CASE m.kind = "change"
  <2>1. m.item \in Items /\ Row(m, published, item, credential) = item[m.item]
    BY <1>1 DEF CommandFits, Row
  <2>2. item[m.item] \in [state : ItemStates(m.item), version : Nat]
    BY <2>1 DEF CatalogRows
  <2> QED
    BY <2>1, <2>2
<1>2. CASE m.kind \in {"rotate", "revoke"}
  <2>1. m.credential \in Secrets /\ Row(m, published, item, credential) = credential[m.credential]
    BY <1>2 DEF CommandFits, Row
  <2>2. credential[m.credential] \in SecretRow
    BY <2>1 DEF CatalogRows
  <2> QED
    BY <2>1, <2>2 DEF SecretRow
<1>3. CASE m.kind \notin {"change", "rotate", "revoke"}
  <2>1. Row(m, published, item, credential) = published
    BY <1>3 DEF Row
  <2> QED
    BY <2>1 DEF CatalogRows, RouteFits, RouteRow
<1> QED
  BY <1>1, <1>2, <1>3

LEMMA AskStillFits ==
    ASSUME CatalogRows, RowsMoveOn, versions' \in Seq(VersionRow),
           NEW a, AskFits(a, published, versions, item, credential)
    PROVE  AskFits(a, published', versions', item', credential')
<1>1. CASE a.at \in {"read", "list", "write"}
  <2> DEFINE m == a.command
             now == Row(m, published, item, credential)
             next == Row(m, published', item', credential')
  <2>1. CommandFits(m, versions, credential) /\ Seen(a.row, now)
    BY <1>1 DEF AskFits
  <2>2. now.version \in Nat
    BY <2>1, RowTypes
  <2>3. Moves(now, next)
    BY <2>1 DEF CommandFits, RowsMoveOn, Row
  <2>4. Len(versions) \in Nat /\ Len(versions') \in Nat /\ Len(versions) <= Len(versions')
    BY DEF CatalogRows, RouteFits, RowsMoveOn, Extends
  <2>5. 1 .. Len(versions) \subseteq 1 .. Len(versions') /\ 0 .. Len(versions) \subseteq 0 .. Len(versions')
    BY <2>4
  <2>6. CommandFits(m, versions', credential')
    BY <2>1, <2>5 DEF CommandFits, RowsMoveOn
  <2>7. Found(a, versions) => Found(a, versions')
    BY <2>1, <2>5 DEF Found, CommandFits, RowsMoveOn, Extends
  <2> HIDE DEF now, next, m
  <2>8. Seen(a.row, next)
    BY <2>1, <2>2, <2>3 DEF Seen, Moves
  <2> QED
    BY <1>1, <2>6, <2>7, <2>8 DEF AskFits, m, next
<1>2. CASE a.at \notin {"read", "list", "write"}
  BY <1>2 DEF AskFits
<1> QED
  BY <1>1, <1>2

\* One handler moves.
LEMMA AskMoves ==
    ASSUME CatalogInv, RowsMoveOn, CatalogRows', NEW c \in CatalogCalls, NEW a,
           asked' = [asked EXCEPT ![c] = a],
           AskFits(a, published', versions', item', credential'), a.at # "over" => credential'[c] = NoSecret,
           \A d \in CatalogCalls \ {c} : credential[d] = NoSecret => credential'[d] = NoSecret
    PROVE  AsksKnow'
<1>1. \A d \in CatalogCalls : asked'[d] = IF d = c THEN a ELSE asked[d]
  BY DEF CatalogInv, AsksKnow
<1>2. \A d \in CatalogCalls : AskFits(asked'[d], published', versions', item', credential')
  BY <1>1, AskStillFits DEF CatalogInv, AsksKnow, CatalogRows, RouteFits
<1>3. \A d \in CatalogCalls : asked'[d].at # "over" => credential'[d] = NoSecret
  BY <1>1 DEF CatalogInv, AsksKnow
<1> QED
  BY <1>2, <1>3 DEF CatalogInv, AsksKnow

-----------------------------------------------------------------------------
(* Reads.                                                                  *)

StepStands == CatalogInv' /\ ChangesAreSeen /\ NothingReturns

\* The rows stay as they are.
LEMMA RowsStay ==
    ASSUME CatalogInv, UNCHANGED <<published, versions, item, credential>>
    PROVE  CatalogRows' /\ LineageIsLinear' /\ RowsMoveOn /\ NothingReturns
<1>1. CatalogRows' /\ LineageIsLinear'
  BY DEF CatalogInv, CatalogRows, LineageIsLinear
<1>2. RowsMoveOn
  BY DEF CatalogInv, CatalogRows, RouteFits, RowsMoveOn, Moves, Extends
<1>3. NothingReturns
  BY DEF CatalogInv, CatalogRows, RouteFits, NothingReturns, IsPrefix
<1> QED
  BY <1>1, <1>2, <1>3

LEMMA ReadStands ==
    ASSUME CatalogInv, UNCHANGED <<published, versions, item, credential>>, NEW c \in CatalogCalls,
           asked[c].at \in {"new", "read", "list"}, NEW a, asked' = [asked EXCEPT ![c] = a],
           AskFits(a, published, versions, item, credential)
    PROVE  StepStands
<1>1. credential[c] = NoSecret
  BY DEF CatalogInv, AsksKnow
<1>2. AsksKnow'
  BY <1>1, RowsStay, AskMoves
<1>3. ChangesAreSeen
  <2>1. \A d \in CatalogCalls : asked[d].at = "write" => asked'[d] = asked[d]
    BY DEF CatalogInv, AsksKnow
  <2> QED
    BY <2>1 DEF ChangesAreSeen
<1> QED
  BY <1>2, <1>3, RowsStay DEF StepStands, CatalogInv

LEMMA ArriveStands ==
    ASSUME CatalogInv, NEW c \in CatalogCalls, ArriveAtCatalog(c)
    PROVE  StepStands
<1>1. PICK m \in Commands : asked' = [asked EXCEPT ![c] =
               [at |-> "read", command |-> m, named |-> RowOf(m).version, row |-> RowOf(m),
                seen |-> 0, answer |-> "none"]]
  BY DEF ArriveAtCatalog
<1> DEFINE a == [at |-> "read", command |-> m, named |-> RowOf(m).version, row |-> RowOf(m),
                 seen |-> 0, answer |-> "none"]
<1>2. /\ a.at = "read" /\ a.command = m /\ a.row = RowOf(m)
      /\ {"at", "command", "named", "row", "seen", "answer"} \subseteq DOMAIN a
  OBVIOUS
<1>3. CommandFits(m, versions, credential)
  <2>1. versions \in Seq(VersionRow)
    BY DEF CatalogInv, CatalogRows, RouteFits
  <2>2. CASE m \in UNION {[kind : {"change"}, item : {i}, to : Lifecycles(i)] : i \in Items}
    BY <2>2 DEF CommandFits
  <2>3. CASE m \in [kind : {"create_route", "publish"}, config : Configs]
    BY <2>3 DEF CommandFits
  <2>4. CASE m \in [kind : {"rollback"}, number : DOMAIN versions]
    BY <2>1, <2>4 DEF CommandFits
  <2>5. CASE m \in [kind : {"lifecycle"}, to : {"draft", "published", "disabled"}]
    BY <2>5 DEF CommandFits
  <2>6. CASE m \in [kind : {"create_credential"}]
    BY <2>6 DEF CommandFits
  <2>7. CASE m \in [kind : {"rotate", "revoke"},
                   credential : {s \in Secrets : credential[s].status # "absent"}]
    BY <2>7 DEF CommandFits
  <2> QED
    BY <1>1, <2>2, <2>3, <2>4, <2>5, <2>6, <2>7 DEF Commands
<1>4. Seen(RowOf(m), Row(m, published, item, credential))
  <2>1. RowOf(m) = Row(m, published, item, credential)
    BY RowIsTheRow
  <2>2. Row(m, published, item, credential).version \in Nat
    BY <1>3, RowTypes DEF CatalogInv
  <2> QED
    BY <2>1, <2>2 DEF Seen
<1> HIDE DEF a
<1>5. AskFits(a, published, versions, item, credential)
  BY <1>2, <1>3, <1>4 DEF AskFits
<1>6. asked[c].at = "new" /\ UNCHANGED <<published, versions, item, credential>>
  BY DEF ArriveAtCatalog
<1> QED
  BY <1>1, <1>5, <1>6, ReadStands DEF a

\* A handler answers, and writes nothing.
LEMMA AnswerFits ==
    ASSUME CatalogInv, NEW c \in CatalogCalls, asked[c].at \in {"read", "list", "write"}, NEW answer
    PROVE  LET a == [asked[c] EXCEPT !.at = "over", !.answer = answer]
           IN  a.at = "over" /\ a.command = asked[c].command
  BY DEF CatalogInv, AsksKnow, AskFits

LEMMA AnswerStands ==
    ASSUME CatalogInv, NEW c \in CatalogCalls, asked[c].at \in {"read", "list"}, NEW answer,
           Answers(c, answer), UNCHANGED <<published, versions, item, credential>>
    PROVE  StepStands
<1> DEFINE a == [asked[c] EXCEPT !.at = "over", !.answer = answer]
<1>1. asked' = [asked EXCEPT ![c] = a]
  BY DEF Answers
<1>2. a.at = "over"
  BY AnswerFits
<1> HIDE DEF a
<1>3. AskFits(a, published, versions, item, credential)
  BY <1>2 DEF AskFits
<1> QED
  BY <1>1, <1>3, ReadStands

\* A handler goes on, with the row that it has read or with the one it had.
LEMMA GoesOnStands ==
    ASSUME CatalogInv, NEW c \in CatalogCalls, asked[c].at \in {"read", "list"}, NEW a,
           asked' = [asked EXCEPT ![c] = a], UNCHANGED <<published, versions, item, credential>>,
           a.at \in {"list", "write"}, a.command = asked[c].command,
           {"at", "command", "named", "row", "seen", "answer"} \subseteq DOMAIN a,
           a.row = asked[c].row \/ a.row = RowOf(asked[c].command),
           a.command.kind = "publish" => a.row # NoRoute, a.at = "write" => Found(a, versions)
    PROVE  StepStands
<1> DEFINE m == asked[c].command
<1>1. AskFits(asked[c], published, versions, item, credential)
  BY DEF CatalogInv, AsksKnow
<1>2. CommandFits(m, versions, credential) /\ Seen(asked[c].row, Row(m, published, item, credential))
  BY <1>1 DEF AskFits
<1>3. Row(m, published, item, credential).version \in Nat /\ RowOf(m) = Row(m, published, item, credential)
  BY <1>2, RowTypes, RowIsTheRow DEF CatalogInv
<1>4. Seen(a.row, Row(m, published, item, credential))
  BY <1>2, <1>3 DEF Seen
<1>5. AskFits(a, published, versions, item, credential)
  BY <1>2, <1>4 DEF AskFits
<1> QED
  BY <1>5, ReadStands

\* What the handler of c stores of itself as it goes on.
LEMMA AskShape ==
    ASSUME CatalogInv, NEW c \in CatalogCalls, asked[c].at \in {"read", "list", "write"}, NEW phase, NEW row, NEW seen
    PROVE  /\ {"at", "command", "named", "row", "seen", "answer"} \subseteq DOMAIN asked[c]
           /\ LET a == [asked[c] EXCEPT !.at = phase]
              IN  /\ {"at", "command", "named", "row", "seen", "answer"} \subseteq DOMAIN a
                  /\ a.at = phase /\ a.command = asked[c].command /\ a.row = asked[c].row
           /\ LET a == [asked[c] EXCEPT !.at = phase, !.row = row]
              IN  /\ {"at", "command", "named", "row", "seen", "answer"} \subseteq DOMAIN a
                  /\ a.at = phase /\ a.command = asked[c].command /\ a.row = row
           /\ LET a == [asked[c] EXCEPT !.at = phase, !.seen = seen]
              IN  /\ {"at", "command", "named", "row", "seen", "answer"} \subseteq DOMAIN a
                  /\ a.at = phase /\ a.command = asked[c].command /\ a.row = asked[c].row /\ a.seen = seen
<1>1. {"at", "command", "named", "row", "seen", "answer"} \subseteq DOMAIN asked[c]
  BY DEF CatalogInv, AsksKnow, AskFits
<1> DEFINE old == asked[c]
<1> HIDE DEF old
<1>2. {"at", "command", "named", "row", "seen", "answer"} \subseteq DOMAIN old
  BY <1>1 DEF old
<1>3. LET a == [old EXCEPT !.at = phase]
      IN  /\ {"at", "command", "named", "row", "seen", "answer"} \subseteq DOMAIN a
          /\ a.at = phase /\ a.command = old.command /\ a.row = old.row
  BY <1>2
<1>4. LET a == [old EXCEPT !.at = phase, !.row = row]
      IN  /\ {"at", "command", "named", "row", "seen", "answer"} \subseteq DOMAIN a
          /\ a.at = phase /\ a.command = old.command /\ a.row = row
  BY <1>2
<1>5. LET a == [old EXCEPT !.at = phase, !.seen = seen]
      IN  /\ {"at", "command", "named", "row", "seen", "answer"} \subseteq DOMAIN a
          /\ a.at = phase /\ a.command = old.command /\ a.row = old.row /\ a.seen = seen
  BY <1>2
<1> QED
  BY <1>1, <1>3, <1>4, <1>5 DEF old

\* publish_route and rollback_route, until their batches.
LEMMA RouteReadsStand ==
    ASSUME CatalogInv, NEW c \in CatalogCalls, ReadRoute(c) \/ ReadVersions(c) \/ ReadTarget(c)
    PROVE  StepStands
<1>1. /\ UNCHANGED <<published, versions, item, credential>> /\ asked[c].at \in {"read", "list"}
      /\ asked[c].command.kind \in {"publish", "rollback"}
  BY DEF ReadRoute, ReadVersions, ReadTarget, At
<1>2. CASE \E answer : Answers(c, answer)
  BY <1>1, <1>2, AnswerStands
<1>3. CASE published # NoRoute /\ Reads(c, "list", published)
  <2> DEFINE a == [asked[c] EXCEPT !.at = "list", !.row = published]
  <2>1. asked' = [asked EXCEPT ![c] = a]
    BY <1>3 DEF Reads
  <2>2. /\ {"at", "command", "named", "row", "seen", "answer"} \subseteq DOMAIN a
        /\ a.at = "list" /\ a.command = asked[c].command /\ a.row = published
    BY <1>1, AskShape
  <2>3. RowOf(asked[c].command) = published
    BY <1>1 DEF RowOf
  <2> HIDE DEF a
  <2> QED
    BY <1>1, <1>3, <2>1, <2>2, <2>3, GoesOnStands
<1>4. CASE /\ asked' = [asked EXCEPT ![c].at = "write", ![c].seen = Len(versions)]
           /\ asked[c].command.kind = "publish" /\ asked[c].at = "list"
  <2> DEFINE a == [asked[c] EXCEPT !.at = "write", !.seen = Len(versions)]
  <2>1. asked' = [asked EXCEPT ![c] = a]
    BY <1>4
  <2>2. /\ {"at", "command", "named", "row", "seen", "answer"} \subseteq DOMAIN a
        /\ a.at = "write" /\ a.command = asked[c].command /\ a.row = asked[c].row /\ a.seen = Len(versions)
    BY <1>1, AskShape
  <2>3. Len(versions) \in 0 .. Len(versions)
    BY DEF CatalogInv, CatalogRows, RouteFits
  <2> HIDE DEF a
  <2>4. Found(a, versions)
    BY <1>4, <2>2, <2>3 DEF Found
  <2>5. a.row # NoRoute
    BY <1>4, <2>2 DEF CatalogInv, AsksKnow, AskFits
  <2> QED
    BY <1>1, <2>1, <2>2, <2>4, <2>5, GoesOnStands
<1>5. CASE /\ Goes(c, "write") /\ asked[c].command.kind = "rollback"
           /\ versions[asked[c].command.number].published
  <2> DEFINE a == [asked[c] EXCEPT !.at = "write"]
  <2>1. asked' = [asked EXCEPT ![c] = a]
    BY <1>5 DEF Goes
  <2>2. /\ {"at", "command", "named", "row", "seen", "answer"} \subseteq DOMAIN a
        /\ a.at = "write" /\ a.command = asked[c].command /\ a.row = asked[c].row
    BY <1>1, AskShape
  <2> HIDE DEF a
  <2>3. Found(a, versions)
    BY <1>5, <2>2 DEF Found
  <2> QED
    BY <1>1, <1>5, <2>1, <2>2, <2>3, GoesOnStands
<1>6. CASE ReadRoute(c)
  BY <1>2, <1>3, <1>6 DEF ReadRoute
<1>7. CASE ReadVersions(c)
  BY <1>2, <1>4, <1>7 DEF ReadVersions, At
<1>8. CASE ReadTarget(c)
  BY <1>2, <1>5, <1>8 DEF ReadTarget, At
<1> QED
  BY <1>6, <1>7, <1>8

\* A handler that reads its row and goes on to its batch.
LEMMA RowReadStands ==
    ASSUME CatalogInv, NEW c \in CatalogCalls, asked[c].at = "read", NEW row,
           row = RowOf(asked[c].command), Reads(c, "write", row),
           UNCHANGED <<published, versions, item, credential>>,
           LET m == asked[c].command
           IN  /\ m.kind \in {"lifecycle", "change", "rotate", "revoke"}
               /\ m.kind = "lifecycle" /\ m.to = "published" => row.active # 0
               /\ m.kind = "change" /\ m.item # "policy" => row.state # "disabled"
               /\ m.kind \in {"rotate", "revoke"} => row.status # "revoked"
    PROVE  StepStands
<1> DEFINE a == [asked[c] EXCEPT !.at = "write", !.row = row]
<1>1. asked' = [asked EXCEPT ![c] = a]
  BY DEF Reads
<1>2. /\ {"at", "command", "named", "row", "seen", "answer"} \subseteq DOMAIN a
      /\ a.at = "write" /\ a.command = asked[c].command /\ a.row = row
  BY AskShape
<1> HIDE DEF a
<1>3. Found(a, versions)
  BY <1>2 DEF Found
<1> QED
  BY <1>1, <1>2, <1>3, GoesOnStands

LEMMA RowReadsStand ==
    ASSUME CatalogInv, NEW c \in CatalogCalls,
           ReadLifecycle(c) \/ ReadPolicy(c) \/ ReadItem(c) \/ ReadCredential(c)
    PROVE  StepStands
<1> DEFINE m == asked[c].command
<1>1. UNCHANGED <<published, versions, item, credential>> /\ asked[c].at = "read"
  BY DEF ReadLifecycle, ReadPolicy, ReadItem, ReadCredential, At, Changes
<1>2. CASE \E answer : Answers(c, answer)
  BY <1>1, <1>2, AnswerStands
<1>3. CASE ReadLifecycle(c) /\ ~\E answer : Answers(c, answer)
  <2>1. /\ m.kind = "lifecycle" /\ Reads(c, "write", published)
        /\ m.to = "published" => published.active # 0
    BY <1>3 DEF ReadLifecycle, At
  <2>2. RowOf(m) = published
    BY <2>1 DEF RowOf
  <2> QED
    BY <1>1, <2>1, <2>2, RowReadStands
<1>4. CASE ReadPolicy(c) /\ ~\E answer : Answers(c, answer)
  <2>1. m.kind = "change" /\ m.item = "policy" /\ Reads(c, "write", item["policy"])
    BY <1>4 DEF ReadPolicy, At, Changes
  <2>2. RowOf(m) = item["policy"]
    BY <2>1 DEF RowOf
  <2> QED
    BY <1>1, <2>1, <2>2, RowReadStands
<1>5. CASE ReadItem(c) /\ ~\E answer : Answers(c, answer)
  <2>1. /\ m.kind = "change" /\ item[m.item].state # "disabled" /\ Reads(c, "write", item[m.item])
    BY <1>5 DEF ReadItem, At, Changes
  <2>2. RowOf(m) = item[m.item]
    BY <2>1 DEF RowOf
  <2> QED
    BY <1>1, <2>1, <2>2, RowReadStands
<1>6. CASE ReadCredential(c) /\ ~\E answer : Answers(c, answer)
  <2>1. /\ m.kind \in {"rotate", "revoke"} /\ credential[m.credential].status # "revoked"
        /\ Reads(c, "write", credential[m.credential])
    BY <1>6 DEF ReadCredential, At
  <2>2. RowOf(m) = credential[m.credential]
    BY <2>1 DEF RowOf
  <2> QED
    BY <1>1, <2>1, <2>2, RowReadStands
<1> QED
  BY <1>2, <1>3, <1>4, <1>5, <1>6

LEMMA CheckStands ==
    ASSUME CatalogInv, NEW c \in CatalogCalls, Check(c)
    PROVE  StepStands
<1>1. UNCHANGED <<published, versions, item, credential>> /\ asked[c].at = "read"
      /\ asked[c].command.kind = "create_route"
  BY DEF Check, At
<1>2. CASE Answers(c, "refused")
  BY <1>1, <1>2, AnswerStands
<1>3. CASE Goes(c, "write")
  <2> DEFINE a == [asked[c] EXCEPT !.at = "write"]
  <2>1. asked' = [asked EXCEPT ![c] = a]
    BY <1>3 DEF Goes
  <2>2. /\ {"at", "command", "named", "row", "seen", "answer"} \subseteq DOMAIN a
        /\ a.at = "write" /\ a.command = asked[c].command /\ a.row = asked[c].row
    BY <1>1, AskShape
  <2> HIDE DEF a
  <2>3. Found(a, versions)
    BY <1>1, <2>2 DEF Found
  <2> QED
    BY <1>1, <2>1, <2>2, <2>3, GoesOnStands
<1> QED
  BY <1>2, <1>3 DEF Check

-----------------------------------------------------------------------------
(* Batches.                                                                *)

\* A handler ends; if a guard let it change its row, the row was the one that
\* it had read.
LEMMA EndStands ==
    ASSUME CatalogInv, NEW c \in CatalogCalls, asked[c].at \in {"read", "write"}, NEW answer, Answers(c, answer),
           CatalogRows', LineageIsLinear', RowsMoveOn, NothingReturns,
           \A d \in CatalogCalls \ {c} : credential[d] = NoSecret => credential'[d] = NoSecret,
           asked[c].at = "read" \/ asked[c].command.kind = "create_route"
               \/ UNCHANGED <<published, item, credential>> \/ RowStands(c)
    PROVE  StepStands
<1> DEFINE a == [asked[c] EXCEPT !.at = "over", !.answer = answer]
<1>1. asked' = [asked EXCEPT ![c] = a]
  BY DEF Answers
<1>2. a.at = "over" /\ a.command = asked[c].command
  BY AnswerFits
<1> HIDE DEF a
<1>3. AskFits(a, published', versions', item', credential')
  BY <1>2 DEF AskFits
<1>4. AsksKnow'
  BY <1>1, <1>2, <1>3, AskMoves
<1>5. ChangesAreSeen
  <2> SUFFICES ASSUME NEW d \in CatalogCalls, asked[d].at = "write", asked'[d].at = "over",
                      asked[d].command.kind # "create_route",
                      RowOf(asked[d].command)' # RowOf(asked[d].command)
               PROVE  asked[d].row = RowOf(asked[d].command)
    BY DEF ChangesAreSeen
  <2>1. d = c
    BY <1>1 DEF CatalogInv, AsksKnow
  <2>2. asked'[c].command = asked[c].command
    BY <1>1, <1>2 DEF CatalogInv, AsksKnow
  <2>3. RowStands(c)
    BY <2>1, <2>2 DEF RowOf
  <2>4. Seen(asked[c].row, Row(asked[c].command, published, item, credential))
    BY <2>1 DEF CatalogInv, AsksKnow, AskFits
  <2> QED
    BY <2>1, <2>3, <2>4, RowIsTheRow DEF RowStands, Seen
<1> QED
  BY <1>4, <1>5 DEF StepStands, CatalogInv

LEMMA AbortStands ==
    ASSUME CatalogInv, NEW c \in CatalogCalls, asked[c].at = "write", NEW holds \in BOOLEAN, Aborts(c, holds)
    PROVE  StepStands
  BY RowsStay, EndStands DEF Aborts

LEMMA PrefixOfExtension ==
    ASSUME NEW s \in Seq(VersionRow), NEW t \in Seq(VersionRow), Extends(s, t)
    PROVE  IsPrefix(s, t)
<1>1. SubSeq(s, 1, Len(s)) = s
  BY SubSeqFull
<1>2. /\ SubSeq(t, 1, Len(s)) \in Seq(VersionRow) /\ Len(SubSeq(t, 1, Len(s))) = Len(s)
      /\ \A n \in 1 .. Len(s) : SubSeq(t, 1, Len(s))[n] = t[n]
  BY DEF Extends
<1>3. SubSeq(t, 1, Len(s)) = s
  BY <1>2, SeqEqual DEF Extends
<1> QED
  BY <1>1, <1>3 DEF Extends, IsPrefix

\* A batch about the route.
LEMMA RouteWritten ==
    ASSUME CatalogInv, NEW c \in CatalogCalls, asked[c].at = "write", NEW answer, Answers(c, answer),
           UNCHANGED <<item, credential>>, RouteFits(published', versions'),
           Moves(published, published'), Extends(versions, versions'),
           published.lifecycle = "disabled" => published' = published,
           asked[c].command.kind = "create_route" \/ RowStands(c)
    PROVE  StepStands
<1>1. CatalogRows' /\ LineageIsLinear'
  BY DEF CatalogInv, CatalogRows, LineageIsLinear
<1>2. RowsMoveOn
  BY DEF RowsMoveOn, Moves
<1>3. NothingReturns
  <2>1. IsPrefix(versions, versions')
    BY PrefixOfExtension DEF CatalogInv, CatalogRows, RouteFits
  <2> QED
    BY <2>1 DEF NothingReturns
<1> QED
  BY <1>1, <1>2, <1>3, EndStands

LEMMA CreateRouteStands ==
    ASSUME CatalogInv, NEW c \in CatalogCalls, CreateRoute(c)
    PROVE  StepStands
<1>1. asked[c].at = "write" /\ asked[c].command.kind = "create_route"
  BY DEF CreateRoute, At
<1>2. CASE Aborts(c, published = NoRoute)
  BY <1>1, <1>2, AbortStands
<1>3. CASE /\ published = NoRoute /\ Answers(c, "ok") /\ UNCHANGED <<item, credential>>
           /\ published' = [lifecycle |-> "draft", active |-> 0, version |-> 1]
           /\ versions' = <<[config |-> asked[c].command.config, published |-> FALSE]>>
  <2>1. asked[c].command.config \in Configs
    BY <1>1 DEF CatalogInv, AsksKnow, AskFits, CommandFits
  <2>2. versions = <<>>
    BY <1>3 DEF CatalogInv, CatalogRows, RouteFits
  <2>3. /\ versions' \in Seq(VersionRow) /\ Len(versions') = 1
        /\ versions'[1] = [config |-> asked[c].command.config, published |-> FALSE]
    BY <1>3, <2>1 DEF VersionRow
  <2>4. RouteFits(published', versions')
    BY <1>3, <2>3 DEF RouteFits, RouteRow, NoRoute
  <2>5. Moves(published, published') /\ Extends(versions, versions')
    BY <1>3, <2>2, <2>3 DEF Moves, Extends, NoRoute
  <2>6. published.lifecycle # "disabled"
    BY <1>3 DEF NoRoute
  <2> QED
    BY <1>1, <1>3, <2>4, <2>5, <2>6, RouteWritten
<1> QED
  BY <1>2, <1>3 DEF CreateRoute

\* The pointer of a route that stands.
LEMMA PointsFit ==
    ASSUME CatalogInv, NEW c \in CatalogCalls, NEW n, NEW allowed,
           Points(c, n, allowed), "disabled" \notin allowed, published # NoRoute,
           versions' \in Seq(VersionRow), Extends(versions, versions'),
           n \in 1 .. Len(versions'), versions'[n].published,
           \A k, l \in 1 .. Len(versions') :
               versions'[k].published /\ versions'[l].published /\ k # l => versions'[k].config # versions'[l].config
    PROVE  /\ RouteFits(published', versions') /\ Moves(published, published')
           /\ published.lifecycle = "disabled" => published' = published
<1>1. /\ published \in RouteRow /\ versions \in Seq(VersionRow) /\ published.active \in 0 .. Len(versions)
      /\ published.lifecycle = "published" => published.active # 0
      /\ published.active # 0 => versions[published.active].published
  BY DEF CatalogInv, CatalogRows, RouteFits
<1>2. Len(versions) \in Nat /\ Len(versions') \in Nat /\ Len(versions) <= Len(versions')
  BY <1>1 DEF Extends
<1>3. CASE published' = published
  <2>1. published.active \in 0 .. Len(versions')
    BY <1>1, <1>2
  <2>2. published.active # 0 => versions'[published.active].published
    BY <1>1, <1>2 DEF Extends
  <2> QED
    BY <1>1, <1>3, <2>1, <2>2 DEF RouteFits, Moves
<1>4. CASE /\ published' = [lifecycle |-> "published", active |-> n, version |-> published.version + 1]
           /\ published.lifecycle # "disabled"
  <2>1. published' \in RouteRow /\ published' # NoRoute /\ n \in 0 .. Len(versions') /\ n # 0
    BY <1>1, <1>2, <1>4 DEF RouteRow, NoRoute
  <2> QED
    BY <1>4, <2>1 DEF RouteFits, Moves
<1> QED
  BY <1>3, <1>4 DEF Points

LEMMA PublishStands ==
    ASSUME CatalogInv, NEW c \in CatalogCalls, Publish(c)
    PROVE  StepStands
<1> DEFINE config == asked[c].command.config
           number == asked[c].seen + 1
           new == Reusable(c) = {}
           free == /\ number \notin DOMAIN versions
                   /\ \A n \in DOMAIN versions : versions[n].published => versions[n].config # config
           holds == GuardHolds(c) /\ (new => free)
           pick == CHOOSE n \in Reusable(c) : TRUE
<1>1. asked[c].at = "write" /\ asked[c].command.kind = "publish"
  BY DEF Publish, At
<1>2. /\ config \in Configs /\ asked[c].seen \in 0 .. Len(versions) /\ asked[c].row # NoRoute
      /\ Seen(asked[c].row, Row(asked[c].command, published, item, credential))
  BY <1>1 DEF CatalogInv, AsksKnow, AskFits, CommandFits, Found
<1>3. /\ versions \in Seq(VersionRow) /\ Len(versions) \in Nat /\ DOMAIN versions = 1 .. Len(versions)
      /\ \A m, n \in 1 .. Len(versions) :
             versions[m].published /\ versions[n].published /\ m # n => versions[m].config # versions[n].config
  BY DEF CatalogInv, CatalogRows, RouteFits
<1>4. CASE Aborts(c, holds)
  BY <1>1, <1>4, AbortStands DEF GuardHolds, RowStands
<1>5. CASE /\ holds /\ Counted(c, published' # published) /\ UNCHANGED <<item, credential>>
           /\ versions' = IF new THEN Append(versions, [config |-> config, published |-> TRUE]) ELSE versions
           /\ Points(c, IF new THEN number ELSE pick, {"draft", "published"})
  <2>1. RowStands(c)
    BY <1>5 DEF GuardHolds
  <2>2. published # NoRoute
    BY <1>1, <1>2, <2>1, RowIsTheRow DEF RowStands, RowOf, Seen
  <2>3. CASE new
    <3>1. number = Len(versions) + 1
      BY <1>2, <1>3, <1>5, <2>3
    <3>2. versions' = Append(versions, [config |-> config, published |-> TRUE])
      BY <1>5, <2>3
    <3> DEFINE row == [config |-> config, published |-> TRUE]
    <3>3. row \in VersionRow /\ row.published /\ row.config = config
      BY <1>2 DEF VersionRow
    <3> HIDE DEF row
    <3>4. /\ versions' \in Seq(VersionRow) /\ Len(versions') = Len(versions) + 1
          /\ \A n \in 1 .. Len(versions) : versions'[n] = versions[n]
          /\ versions'[Len(versions) + 1] = row
      BY <1>3, <3>2, <3>3 DEF row
    <3>5. \A n \in 1 .. Len(versions) : versions[n].published => versions[n].config # config
      BY <1>3, <1>5, <2>3
    <3>6. \A k, l \in 1 .. Len(versions') :
              versions'[k].published /\ versions'[l].published /\ k # l
              => versions'[k].config # versions'[l].config
      <4> HIDE DEF config, number, new, free, holds
      <4>1. \A k \in 1 .. Len(versions') : k \in 1 .. Len(versions) \/ k = Len(versions) + 1
        BY <1>3, <3>4
      <4> QED
        BY <1>3, <3>3, <3>4, <3>5, <4>1
    <3>7. /\ number \in 1 .. Len(versions') /\ versions'[number].published
      BY <1>3, <3>1, <3>3, <3>4
    <3>8. Extends(versions, versions')
      BY <1>3, <3>4 DEF Extends
    <3>9. Points(c, number, {"draft", "published"})
      BY <1>5, <2>3
    <3> HIDE DEF config, number, new, free, holds, pick
    <3>10. /\ RouteFits(published', versions') /\ Moves(published, published')
           /\ published.lifecycle = "disabled" => published' = published
      BY <2>2, <3>4, <3>6, <3>7, <3>8, <3>9, PointsFit
    <3> QED
      BY <1>1, <1>5, <2>1, <3>8, <3>10, RouteWritten DEF Counted
  <2>4. CASE ~new
    <3>1. pick \in Reusable(c)
      BY <2>4
    <3>2. pick \in 1 .. Len(versions) /\ versions[pick].published
      BY <1>2, <1>3, <3>1 DEF Reusable
    <3>3. versions' = versions /\ Points(c, pick, {"draft", "published"})
      BY <1>5, <2>4
    <3>4. Extends(versions, versions')
      BY <1>3, <3>3 DEF Extends
    <3> HIDE DEF config, number, new, free, holds, pick
    <3>5. /\ RouteFits(published', versions') /\ Moves(published, published')
          /\ published.lifecycle = "disabled" => published' = published
      BY <1>3, <2>2, <3>2, <3>3, <3>4, PointsFit
    <3> QED
      BY <1>1, <1>5, <2>1, <3>4, <3>5, RouteWritten DEF Counted
  <2> QED
    BY <2>3, <2>4
<1> QED
  BY <1>4, <1>5 DEF Publish

LEMMA RollbackStands ==
    ASSUME CatalogInv, NEW c \in CatalogCalls, Rollback(c)
    PROVE  StepStands
<1> DEFINE n == asked[c].command.number
<1>1. asked[c].at = "write" /\ asked[c].command.kind = "rollback"
  BY DEF Rollback, At
<1>2. n \in 1 .. Len(versions) /\ versions[n].published
  BY <1>1 DEF CatalogInv, AsksKnow, AskFits, CommandFits, Found
<1>3. /\ versions \in Seq(VersionRow) /\ published # NoRoute
      /\ \A k, l \in 1 .. Len(versions) :
             versions[k].published /\ versions[l].published /\ k # l => versions[k].config # versions[l].config
  BY <1>2 DEF CatalogInv, CatalogRows, RouteFits
<1>4. CASE Aborts(c, GuardHolds(c))
  BY <1>1, <1>4, AbortStands DEF GuardHolds, RowStands
<1>5. CASE /\ GuardHolds(c) /\ Points(c, n, {"published"}) /\ Counted(c, published' # published)
           /\ UNCHANGED <<versions, item, credential>>
  <2>1. Extends(versions, versions')
    BY <1>3, <1>5 DEF Extends
  <2> HIDE DEF n
  <2>2. /\ RouteFits(published', versions') /\ Moves(published, published')
        /\ published.lifecycle = "disabled" => published' = published
    BY <1>2, <1>3, <1>5, <2>1, PointsFit
  <2> QED
    BY <1>1, <1>5, <2>1, <2>2, RouteWritten DEF Counted, GuardHolds
<1> QED
  BY <1>4, <1>5 DEF Rollback

LEMMA SetLifecycleStands ==
    ASSUME CatalogInv, NEW c \in CatalogCalls, SetLifecycle(c)
    PROVE  StepStands
<1> DEFINE to == asked[c].command.to
           matched == RowStands(c) /\ published.lifecycle # "disabled"
<1>1. asked[c].at = "write" /\ asked[c].command.kind = "lifecycle"
  BY DEF SetLifecycle, At
<1>2. /\ to \in {"draft", "published", "disabled"}
      /\ to = "published" => asked[c].row.active # 0
      /\ Seen(asked[c].row, Row(asked[c].command, published, item, credential))
  BY <1>1 DEF CatalogInv, AsksKnow, AskFits, CommandFits, Found
<1>3. CASE Aborts(c, GuardHolds(c))
  BY <1>1, <1>3, AbortStands DEF GuardHolds, RowStands
<1>4. CASE /\ GuardHolds(c) /\ Counted(c, matched) /\ UNCHANGED <<versions, item, credential>>
           /\ published' = IF matched THEN [published EXCEPT !.lifecycle = to, !.version = @ + 1]
                           ELSE published
  <2>1. RowStands(c)
    BY <1>4 DEF GuardHolds
  <2>2. asked[c].row = published
    BY <1>1, <1>2, <2>1, RowIsTheRow DEF RowStands, RowOf, Seen
  <2>3. RouteFits(published, versions)
    BY DEF CatalogInv, CatalogRows
  <2>4. RouteFits(published', versions') /\ Moves(published, published') /\ Extends(versions, versions')
    <3> HIDE DEF to
    <3>1. versions' = versions /\ Extends(versions, versions')
      BY <1>4, <2>3 DEF RouteFits, Extends
    <3>2. CASE published' = published
      BY <2>3, <3>1, <3>2 DEF Moves
    <3>3. CASE published' = [published EXCEPT !.lifecycle = to, !.version = @ + 1]
      <4>1. published \in RouteRow
        BY <2>3 DEF RouteFits
      <4>2. /\ published' \in RouteRow /\ published'.lifecycle = to /\ published'.active = published.active
            /\ published'.version = published.version + 1 /\ published.version \in Nat
        <5>1. /\ published.active \in Nat /\ published.version \in Nat
              /\ published = [lifecycle |-> published.lifecycle, active |-> published.active,
                              version |-> published.version]
          BY <4>1 DEF RouteRow
        <5>2. published' = [lifecycle |-> to, active |-> published.active, version |-> published.version + 1]
          BY <3>3, <5>1
        <5> QED
          BY <1>2, <5>1, <5>2 DEF RouteRow
      <4>3. published' # NoRoute
        BY <4>2 DEF NoRoute
      <4>4. to = "published" => published'.active # 0
        BY <1>2, <2>2, <4>2
      <4> QED
        BY <2>3, <3>1, <4>2, <4>3, <4>4 DEF RouteFits, Moves
    <3> QED
      BY <1>4, <3>1, <3>2, <3>3
  <2>5. published.lifecycle = "disabled" => published' = published
    BY <1>4
  <2> QED
    BY <1>1, <1>4, <2>1, <2>4, <2>5, RouteWritten DEF Counted
<1> QED
  BY <1>3, <1>4 DEF SetLifecycle

\* A policy, a provider or a model.
LEMMA WritesStand ==
    ASSUME CatalogInv, NEW c \in CatalogCalls, SetPolicy(c) \/ SetProvider(c) \/ SetModel(c)
    PROVE  StepStands
<1> DEFINE m == asked[c].command
           i == m.item
           new == [state |-> m.to, version |-> item[i].version + 1]
<1>1. /\ asked[c].at = "write" /\ m.kind = "change"
      /\ \E matched \in BOOLEAN : Writes(c, i, matched)
  <2>1. CASE SetPolicy(c)
    BY <2>1 DEF SetPolicy, Changes, At, RowStands
  <2>2. CASE SetProvider(c)
    BY <2>2 DEF SetProvider, Changes, At, RowStands
  <2>3. CASE SetModel(c)
    BY <2>3 DEF SetModel, Changes, At, RowStands
  <2> QED
    BY <2>1, <2>2, <2>3
<1>2. /\ i \in Items /\ m.to \in Lifecycles(i)
      /\ i # "policy" => asked[c].row.state # "disabled"
      /\ Seen(asked[c].row, Row(m, published, item, credential))
  BY <1>1 DEF CatalogInv, AsksKnow, AskFits, CommandFits, Found
<1>3. PICK matched \in BOOLEAN : Writes(c, i, matched)
  BY <1>1
<1>4. CASE Aborts(c, GuardHolds(c))
  BY <1>1, <1>4, AbortStands DEF GuardHolds, RowStands
<1>5. CASE /\ GuardHolds(c) /\ Counted(c, matched) /\ UNCHANGED <<published, versions, credential>>
           /\ item' = IF matched THEN [item EXCEPT ![i] = new] ELSE item
  <2>1. RowStands(c)
    BY <1>5 DEF GuardHolds
  <2>2. asked[c].row = item[i]
    BY <1>1, <1>2, <2>1, RowIsTheRow DEF RowStands, RowOf, Seen
  <2>3. /\ item = [j \in Items |-> item[j]]
        /\ \A j \in Items : item[j] \in [state : ItemStates(j), version : Nat]
    BY DEF CatalogInv, CatalogRows
  <2>4. new \in [state : ItemStates(i), version : Nat] /\ new.version = item[i].version + 1
    <3>1. m.to \in ItemStates(i)
      BY <1>2 DEF ItemStates
    <3>2. item[i].version \in Nat
      BY <1>2, <2>3
    <3> QED
      BY <3>1, <3>2
  <2>5. i = "policy" => item[i].state # "disabled"
    <3>1. item["policy"].state \in ItemStates("policy")
      BY <2>3 DEF Items
    <3> QED
      BY <3>1 DEF ItemStates, Lifecycles
  <2>6. item' = [j \in Items |-> item'[j]]
        /\ \A j \in Items : item'[j] = item[j] \/ (j = i /\ item'[j] = new)
    BY <1>5, <2>3
  <2> HIDE DEF new
  <2>7. CatalogRows' /\ LineageIsLinear'
    <3>1. \A j \in Items : item'[j] \in [state : ItemStates(j), version : Nat]
      BY <2>3, <2>4, <2>6
    <3> QED
      BY <1>5, <2>6, <3>1 DEF CatalogInv, CatalogRows, LineageIsLinear
  <2>8. RowsMoveOn
    BY <1>5, <2>4, <2>6 DEF CatalogInv, CatalogRows, RouteFits, RowsMoveOn, Moves, Extends
  <2>9. NothingReturns
    <3>1. IsPrefix(versions, versions')
      BY <1>5 DEF CatalogInv, CatalogRows, RouteFits, IsPrefix
    <3> QED
      BY <1>2, <1>5, <2>2, <2>5, <2>6, <3>1 DEF NothingReturns
  <2> QED
    BY <1>1, <1>5, <2>1, <2>7, <2>8, <2>9, EndStands DEF Counted
<1> QED
  BY <1>3, <1>4, <1>5 DEF Writes

LEMMA CreateCredentialStands ==
    ASSUME CatalogInv, NEW c \in CatalogCalls, CreateCredential(c)
    PROVE  StepStands
<1> DEFINE new == NewSecret(NoCredential)
<1>1. /\ asked[c].at = "read" /\ credential' = [credential EXCEPT ![c] = new] /\ Answers(c, "ok")
      /\ UNCHANGED <<published, versions, item>>
  BY DEF CreateCredential, At
<1>2. c \in Secrets /\ credential \in [Secrets -> SecretRow] /\ credential[c] = NoSecret
  BY <1>1 DEF CatalogInv, CatalogRows, AsksKnow, Secrets
<1>3. new \in SecretRow /\ new.version = 1 /\ new.status = "active" /\ new.parent = NoCredential
  BY DEF NewSecret, SecretRow
<1> HIDE DEF new
<1>4. \A s \in Secrets : credential'[s] = IF s = c THEN new ELSE credential[s]
  BY <1>1, <1>2
<1>5. CatalogRows'
  BY <1>1, <1>2, <1>3 DEF CatalogInv, CatalogRows
<1>6. \A s \in Secrets : credential'[s].parent = credential[s].parent
  BY <1>2, <1>3, <1>4 DEF NoSecret
<1>7. \A s \in Secrets : credential[s].status = "revoked" => credential'[s] = credential[s]
  BY <1>2, <1>4 DEF NoSecret
<1>8. LineageIsLinear'
  <2>1. \A s \in CatalogCalls : s \in Secrets /\ credential[s].parent \in Secrets \cup {NoCredential}
    BY <1>2 DEF Secrets, SecretRow
  <2> QED
    BY <1>6, <1>7, <2>1 DEF CatalogInv, LineageIsLinear
<1>9. RowsMoveOn
  BY <1>1, <1>2, <1>3, <1>4 DEF CatalogInv, CatalogRows, RouteFits, RowsMoveOn, Moves, Extends, NoSecret
<1>10. NothingReturns
  <2>1. IsPrefix(versions, versions')
    BY <1>1 DEF CatalogInv, CatalogRows, RouteFits, IsPrefix
  <2> QED
    BY <1>1, <1>7, <2>1 DEF NothingReturns
<1>11. \A d \in CatalogCalls \ {c} : credential[d] = NoSecret => credential'[d] = NoSecret
  BY <1>4 DEF Secrets
<1> QED
  BY <1>1, <1>5, <1>8, <1>9, <1>10, <1>11, EndStands

LEMMA ReplaceCredentialStands ==
    ASSUME CatalogInv, NEW c \in CatalogCalls, ReplaceCredential(c)
    PROVE  StepStands
<1> DEFINE s == asked[c].command.credential
           matched == RowStands(c) /\ credential[s].status # "revoked"
           successor == IF asked[c].command.kind = "rotate" THEN NewSecret(s) ELSE credential[c]
           revoked == [credential[s] EXCEPT !.status = "revoked", !.version = @ + 1]
<1>1. asked[c].at = "write" /\ asked[c].command.kind \in {"rotate", "revoke"}
  BY DEF ReplaceCredential, At
<1>2. CASE Aborts(c, GuardHolds(c))
  BY <1>1, <1>2, AbortStands DEF GuardHolds, RowStands
<1>3. CASE /\ GuardHolds(c) /\ Counted(c, matched) /\ UNCHANGED <<published, versions, item>>
           /\ credential' = [credential EXCEPT ![c] = successor, ![s] = IF matched THEN revoked ELSE @]
  <2>1. /\ s \in Secrets /\ credential[s].status # "absent" /\ asked[c].row.status # "revoked"
        /\ Seen(asked[c].row, Row(asked[c].command, published, item, credential))
        /\ c \in Secrets /\ credential \in [Secrets -> SecretRow] /\ credential[c] = NoSecret
    BY <1>1 DEF CatalogInv, CatalogRows, AsksKnow, AskFits, CommandFits, Found, Secrets
  <2>2. s # c
    BY <2>1 DEF NoSecret
  <2>3. RowStands(c) /\ credential[s].status # "revoked"
    BY <1>1, <1>3, <2>1, RowIsTheRow DEF GuardHolds, RowStands, RowOf, Seen
  <2>4. /\ revoked \in SecretRow /\ revoked.status = "revoked"
        /\ revoked.version = credential[s].version + 1 /\ revoked.parent = credential[s].parent
    <3> DEFINE old == credential[s]
    <3>1. old \in SecretRow
      BY <2>1
    <3> HIDE DEF old
    <3> DEFINE next == old.version + 1
    <3>2. next \in Nat
      BY <3>1 DEF SecretRow
    <3> HIDE DEF next
    <3>3. LET new == [old EXCEPT !.status = "revoked", !.version = next]
          IN  new \in SecretRow /\ new.status = "revoked" /\ new.version = next /\ new.parent = old.parent
      BY <3>1, <3>2 DEF SecretRow
    <3> QED
      BY <3>3 DEF old, next
  <2>5. /\ successor \in SecretRow /\ successor.version \in {0, 1} /\ successor.parent \in {s, NoCredential}
        /\ successor = NoSecret \/ successor.version = 1
    BY <2>1 DEF SecretRow, NewSecret, NoSecret
  <2>6. credential' = [credential EXCEPT ![c] = successor, ![s] = revoked]
    BY <1>3, <2>2, <2>3
  <2> HIDE DEF matched, successor, revoked
  <2>7. /\ credential' \in [Secrets -> SecretRow]
        /\ \A t \in Secrets :
               credential'[t] = IF t = s THEN revoked ELSE IF t = c THEN successor ELSE credential[t]
    BY <2>1, <2>2, <2>4, <2>5, <2>6
  <2>8. \A t \in Secrets : credential[t].status = "revoked" => credential'[t] = credential[t]
    BY <2>1, <2>3, <2>7 DEF NoSecret
  <2>9. \A t \in Secrets \ {c} : credential'[t].parent = credential[t].parent
    BY <2>4, <2>7
  <2>10. LineageIsLinear'
    <3>1. \A t \in CatalogCalls : t \in Secrets /\ credential[t].parent \in Secrets \cup {NoCredential}
      BY <2>1 DEF Secrets, SecretRow
    <3>2. s # NoCredential
      BY <2>1, CatalogConstants DEF Secrets
    <3>3. credential'[s].status = "revoked" /\ credential'[c].parent \in {s, NoCredential}
      BY <2>1, <2>2, <2>4, <2>5, <2>7
    <3>4. \A t \in CatalogCalls : credential[t].parent # NoCredential =>
              /\ credential[credential[t].parent].status = "revoked"
              /\ \A u \in CatalogCalls \ {t} : credential[u].parent # credential[t].parent
      BY DEF CatalogInv, LineageIsLinear
    <3>5. \A t \in CatalogCalls : credential[t].parent # s
      BY <2>3, <3>2, <3>4
    <3> QED
      BY <2>8, <2>9, <3>1, <3>2, <3>3, <3>4, <3>5 DEF LineageIsLinear
  <2>11. CatalogRows'
    BY <1>3, <2>7 DEF CatalogInv, CatalogRows
  <2>12. RowsMoveOn
    <3>1. \A t \in Secrets : Moves(credential[t], credential'[t])
      BY <2>1, <2>4, <2>5, <2>7 DEF Moves, NoSecret
    <3>2. \A t \in Secrets : credential[t].status # "absent" => credential'[t].status # "absent"
      BY <2>1, <2>4, <2>7 DEF NoSecret
    <3> QED
      BY <1>3, <3>1, <3>2 DEF CatalogInv, CatalogRows, RouteFits, RowsMoveOn, Moves, Extends
  <2>13. NothingReturns
    <3>1. IsPrefix(versions, versions')
      BY <1>3 DEF CatalogInv, CatalogRows, RouteFits, IsPrefix
    <3> QED
      BY <1>3, <2>8, <3>1 DEF NothingReturns
  <2>14. \A d \in CatalogCalls \ {c} : credential[d] = NoSecret => credential'[d] = NoSecret
    BY <2>1, <2>7 DEF NoSecret, Secrets
  <2> QED
    BY <1>1, <1>3, <2>3, <2>10, <2>11, <2>12, <2>13, <2>14, EndStands DEF Counted
<1> QED
  BY <1>2, <1>3 DEF ReplaceCredential

-----------------------------------------------------------------------------
LEMMA CatalogInitially == CatalogInit => CatalogInv
<1> SUFFICES ASSUME CatalogInit PROVE CatalogInv
  OBVIOUS
<1>1. RouteFits(published, versions)
  <2>1. PICK a, b \in Configs :
            \/ published = NoRoute /\ versions = <<>>
            \/ /\ published = [lifecycle |-> "draft", active |-> 0, version |-> 1]
               /\ versions = <<[config |-> a, published |-> FALSE]>>
            \/ /\ a # b
               /\ published = [lifecycle |-> "published", active |-> 3, version |-> 3]
               /\ versions = <<[config |-> a, published |-> FALSE], [config |-> a, published |-> TRUE],
                               [config |-> b, published |-> TRUE]>>
    BY DEF CatalogInit
  <2>2. CASE published = NoRoute /\ versions = <<>>
    BY <2>2 DEF RouteFits, RouteRow, NoRoute, VersionRow
  <2>3. CASE /\ published = [lifecycle |-> "draft", active |-> 0, version |-> 1]
             /\ versions = <<[config |-> a, published |-> FALSE]>>
    BY <2>3 DEF RouteFits, RouteRow, NoRoute, VersionRow
  <2>4. CASE /\ a # b
             /\ published = [lifecycle |-> "published", active |-> 3, version |-> 3]
             /\ versions = <<[config |-> a, published |-> FALSE], [config |-> a, published |-> TRUE],
                             [config |-> b, published |-> TRUE]>>
    <3>1. versions \in Seq(VersionRow) /\ Len(versions) = 3
      BY <2>4 DEF VersionRow
    <3>2. /\ ~versions[1].published /\ versions[2].published /\ versions[3].published
          /\ versions[2].config = a /\ versions[3].config = b
      BY <2>4
    <3>3. published \in RouteRow /\ published.active = 3 /\ published # NoRoute
      BY <2>4 DEF RouteRow, NoRoute
    <3>4. \A m \in 1 .. 3 : m = 1 \/ m = 2 \/ m = 3
      OBVIOUS
    <3> QED
      BY <2>4, <3>1, <3>2, <3>3, <3>4 DEF RouteFits
  <2> QED
    BY <2>1, <2>2, <2>3, <2>4
<1>2. item = [i \in Items |-> item[i]] /\ \A i \in Items : item[i] \in [state : ItemStates(i), version : Nat]
  BY DEF CatalogInit, Items, ItemStates, Lifecycles
<1>3. credential = [s \in Secrets |-> IF s = FirstCredential THEN NewSecret(NoCredential) ELSE NoSecret]
  BY DEF CatalogInit
<1>4. credential \in [Secrets -> SecretRow]
  BY <1>3 DEF NewSecret, NoSecret, SecretRow
<1>5. \A c \in CatalogCalls : credential[c] = NoSecret
  BY <1>3, CatalogConstants DEF Secrets
<1>6. AsksKnow
  BY <1>5 DEF CatalogInit, AsksKnow, AskFits
<1> QED
  BY <1>1, <1>2, <1>4, <1>5, <1>6 DEF CatalogInv, CatalogRows, LineageIsLinear, NoSecret

LEMMA CatalogStep == CatalogInv /\ [CatalogNext]_catalogVars => CatalogInv' /\ (CatalogNext => StepStands)
<1>1. ASSUME CatalogInv, CatalogNext PROVE StepStands
  <2>1. PICK c \in CatalogCalls :
            \/ ArriveAtCatalog(c) \/ ReadRoute(c) \/ ReadVersions(c) \/ ReadTarget(c) \/ Check(c)
            \/ ReadLifecycle(c) \/ ReadPolicy(c) \/ ReadItem(c) \/ ReadCredential(c)
            \/ CreateRoute(c) \/ Publish(c) \/ Rollback(c) \/ SetLifecycle(c)
            \/ SetPolicy(c) \/ SetProvider(c) \/ SetModel(c)
            \/ CreateCredential(c) \/ ReplaceCredential(c)
    BY <1>1 DEF CatalogNext
  <2> QED
    BY <1>1, <2>1, ArriveStands, RouteReadsStand, RowReadsStand, CheckStands, CreateRouteStands,
       PublishStands, RollbackStands, SetLifecycleStands, WritesStand, CreateCredentialStands,
       ReplaceCredentialStands
<1>2. ASSUME CatalogInv, UNCHANGED catalogVars PROVE CatalogInv'
  BY <1>2 DEF CatalogInv, CatalogRows, AsksKnow, LineageIsLinear, catalogVars
<1> QED
  BY <1>1, <1>2 DEF StepStands

LEMMA CatalogInvariant == CatalogSpec => []CatalogInv
  BY CatalogInitially, CatalogStep, PTL DEF CatalogSpec

\* Every row and every handler has its type, at every moment.
THEOREM CatalogTypeCorrect == CatalogSpec => []CatalogTypeOK
<1>1. CatalogInv => CatalogTypeOK
  <2> SUFFICES ASSUME CatalogInv PROVE CatalogTypeOK
    OBVIOUS
  <2>1. /\ published.lifecycle \in {"absent", "draft", "published", "disabled"}
        /\ published.active \in 0 .. Len(versions)
    BY DEF CatalogInv, CatalogRows, RouteFits, RouteRow
  <2>2. \A n \in DOMAIN versions : versions[n].config \in Configs /\ versions[n].published \in BOOLEAN
    <3>1. \A n \in DOMAIN versions : versions[n] \in VersionRow
      BY DEF CatalogInv, CatalogRows, RouteFits
    <3> QED
      BY <3>1 DEF VersionRow
  <2>3. \A i \in Items : item[i].state \in ItemStates(i)
    BY DEF CatalogInv, CatalogRows
  <2>4. \A s \in Secrets : /\ credential[s].status \in {"absent", "active", "revoked"}
                           /\ credential[s].parent \in Secrets \cup {NoCredential}
    BY DEF CatalogInv, CatalogRows, SecretRow
  <2>5. \A c \in CatalogCalls : asked[c].at \in {"new", "read", "list", "write", "over"}
    BY DEF CatalogInv, AsksKnow, AskFits
  <2> QED
    BY <2>1, <2>2, <2>3, <2>4, <2>5 DEF CatalogTypeOK, ItemStates
<1> QED
  BY <1>1, CatalogInvariant, PTL

\* P04-CG.md: however publications, rollbacks, disablements, policy changes
\* and rotations cross, the gateway finds a published version behind a
\* published route, a lineage has one live credential, no row changes but from
\* the state its handler has read, and nothing that was ended returns.
THEOREM CatalogAlwaysStands == CatalogSpec => CatalogStands
<1>1. CatalogInv => RouteIsWhole /\ LineageIsLinear
  <2>1. CatalogInv => DOMAIN versions = 1 .. Len(versions)
    BY DEF CatalogInv, CatalogRows, RouteFits
  <2> QED
    BY <2>1 DEF CatalogInv, CatalogRows, RouteFits, RouteIsWhole
<1>2. CatalogInv /\ [CatalogNext]_catalogVars
      => [CatalogInv' /\ ChangesAreSeen /\ NothingReturns]_catalogVars
  BY CatalogStep DEF StepStands
<1> QED
  BY <1>1, <1>2, CatalogInvariant, PTL DEF CatalogSpec, CatalogStands
=============================================================================

----------------------------- MODULE AgentProofs -----------------------------
(***************************************************************************)
(* Theorems about what agents may use and what is kept of what they did:   *)
(* ToolPolicy and Runs, for any tools, policies and runs.                  *)
(***************************************************************************)
EXTENDS ToolPolicy, Runs, FiniteSetTheorems, WellFoundedInduction, TLAPS

-----------------------------------------------------------------------------
(***************************************************************************)
(* ToolPolicy: a gate is open for what was read of it.                     *)
(***************************************************************************)
\* Only the absent row has version 0, and a row keeps what its kind needs.
RowFits(x, row) ==
    /\ "version" \in DOMAIN row /\ row.version \in Nat
    /\ row.version = 0 <=> row = Absent
    /\ row # Absent =>
           {"state", "source", "fingerprint"} \subseteq DOMAIN row /\ row.state \in States(x)
SectionFits(s) == s.posture \in {"allow", "deny"} /\ s.tools \subseteq Tools

PolicyRows ==
    /\ document = Absent \/ document.content \in Documents
    /\ entry = [x \in Entries |-> entry[x]] /\ \A x \in Entries : RowFits(x, entry[x])
    /\ SectionFits(section)

\* No request names a source or a version.
Amends(x, fields) ==
    /\ {"version", "source"} \cap DOMAIN fields = {}
    /\ "state" \in DOMAIN fields => fields.state \in States(x)

\* A version names one state of a row: the row that an editor has read is
\* either the present one or an older one.
EditorKnows(rows, e) ==
    /\ e.at \in {"new", "write", "over"}
    /\ e.at = "write" =>
           \/ e.target = "policy" /\ e.content \in Documents
           \/ /\ e.target \in Entries
              /\ RowFits(e.target, e.row) /\ e.row.version <= rows[e.target].version
              /\ e.row.version = rows[e.target].version => e.row = rows[e.target]
              /\ e.row = Absent =>
                     e.fields # Absent /\ e.fields.version = 1 /\ RowFits(e.target, e.fields)
              /\ e.row # Absent => Amends(e.target, e.fields)
EditorsKnow ==
    editor = [a \in Editors |-> editor[a]] /\ \A a \in Editors : EditorKnows(entry, editor[a])

PublisherKnows(p) ==
    p.at \in {"new", "publish", "over"} /\ (p.at = "publish" => SectionFits(p.tools))
PublishersKnow ==
    publisher = [p \in Publishers |-> publisher[p]] /\ \A p \in Publishers : PublisherKnows(publisher[p])

\* What a decision has read so far was so when it was read: the gate stood
\* open.  A tool keeps its source, so a review of it can be found later.
AskerKnows(rows, call, gates) ==
    /\ gates \subseteq Gates
    /\ call.at \in {"new", "registration", "policy", "section", "over"}
    /\ call.at \in {"registration", "policy", "section"} =>
           /\ {"tool", "fingerprint", "risk", "row"} \subseteq DOMAIN call
           /\ call.tool \in Tools /\ call.risk \in Risks
           /\ call.row # Absent =>
                  rows[call.tool] # Absent /\ rows[call.tool].source = call.row.source
           /\ ToolFits(call.row, call) => "tool" \in gates
           /\ call.row # Absent /\ call.row.source = "built_in" => {"registration", "list"} \subseteq gates
    /\ call.at \in {"policy", "section"} =>
           /\ {"id", "registration"} \subseteq DOMAIN call
           /\ call.row # Absent /\ Reviewed(call.registration, call.row) => "registration" \in gates
    /\ call.at = "section" =>
           /\ call.document = Absent \/ call.document.content \in Documents
           /\ call.document # Absent /\ Allows(call.document.content, call.tool) => "policy" \in gates
           /\ call.document # Absent /\ call.id \in call.document.content.mcp => "list" \in gates
    /\ call.at = "over" /\ call.verdict # Denied => gates = Gates /\ call.verdict >= call.risk
AskersKnow ==
    /\ asker = [k \in Askers |-> asker[k]] /\ opened = [k \in Askers |-> opened[k]]
    /\ \A k \in Askers : AskerKnows(entry, asker[k], opened[k])

PolicyInv == PolicyRows /\ EditorsKnow /\ PublishersKnow /\ AskersKnow

-----------------------------------------------------------------------------
LEMMA AbsentRow == \A x : RowFits(x, Absent)
  BY DEF RowFits, Absent

LEMMA ToolRow ==
    ASSUME NEW x \in Tools, NEW s, NEW f, NEW risk
    PROVE  RowFits(x, Tool(1, s, f, risk)) /\ Tool(1, s, f, risk) # Absent /\ Tool(1, s, f, risk).version = 1
  BY DEF RowFits, Tool, Absent, States

LEMMA RegistrationRow ==
    ASSUME NEW x \in Registrations \ Tools, NEW state \in {"approved", "withheld"}, NEW s, NEW f
    PROVE  /\ RowFits(x, Registration(state, s, f)) /\ Registration(state, s, f) # Absent
           /\ Registration(state, s, f).version = 1
  BY DEF RowFits, Registration, Absent, States

LEMMA SectionOfFits ==
    ASSUME NEW row, row = Absent \/ row.content \in Documents
    PROVE  SectionFits(SectionOf(row))
  BY PolicyConstants DEF SectionOf, SectionFits

LEMMA PolicyInitially == PolicyInit => PolicyInv
<1> SUFFICES ASSUME PolicyInit PROVE PolicyInv
  OBVIOUS
<1>1. document = Absent \/ document.content \in Documents
  BY DEF PolicyInit
<1>2. entry = [x \in Entries |-> entry[x]] /\ \A x \in Entries : RowFits(x, entry[x])
  <2>1. CASE entry = [x \in Entries |-> Absent]
    BY <2>1, AbsentRow
  <2>2. ASSUME NEW prints, NEW source, NEW risk, NEW t,
               entry = [x \in Entries |-> IF x \in Tools THEN Tool(1, source, prints[x], risk)
                                          ELSE Registration("approved", source, prints[t])]
        PROVE  entry = [x \in Entries |-> entry[x]] /\ \A x \in Entries : RowFits(x, entry[x])
    <3>1. \A x \in Entries : entry[x] = IF x \in Tools THEN Tool(1, source, prints[x], risk)
                                        ELSE Registration("approved", source, prints[t])
      BY <2>2
    <3>2. \A x \in Entries : RowFits(x, entry[x])
      BY <3>1, ToolRow, RegistrationRow DEF Entries
    <3> QED
      BY <2>2, <3>2
  <2>3. CASE entry # [x \in Entries |-> Absent]
    <3>1. PICK d \in Documents, prints \in Injection(Tools, Fingerprints), source \in Sources, risk \in Risks,
               t \in Tools :
              entry = [x \in Entries |-> IF x \in Tools THEN Tool(1, source, prints[x], risk)
                                         ELSE Registration("approved", source, prints[t])]
      BY <2>3, Zenon DEF PolicyInit
    <3> QED
      BY <3>1, <2>2, Zenon
  <2> QED
    BY <2>1, <2>3
<1>3. SectionFits(section)
  <2>1. SectionFits(NoSection)
    BY DEF SectionFits, NoSection
  <2>2. Absent = Absent \/ Absent.content \in Documents
    OBVIOUS
  <2> QED
    BY <1>1, <2>1, <2>2, SectionOfFits DEF PolicyInit
<1>4. EditorsKnow
  BY DEF PolicyInit, EditorsKnow, EditorKnows
<1>5. PublishersKnow
  BY DEF PolicyInit, PublishersKnow, PublisherKnows
<1>6. AskersKnow
  BY DEF PolicyInit, AskersKnow, AskerKnows
<1> QED
  BY <1>1, <1>2, <1>3, <1>4, <1>5, <1>6 DEF PolicyInv, PolicyRows

-----------------------------------------------------------------------------
\* A row keeps its source, and a write gives it a version of its own.
RowsMoveOn ==
    \A x \in Entries :
        /\ entry[x] # Absent => entry'[x] # Absent /\ entry'[x].source = entry[x].source
        /\ entry'[x] = entry[x] \/ entry'[x].version = entry[x].version + 1

LEMMA WriteEntryStep ==
    ASSUME PolicyInv, NEW a \in Editors, WriteEntry(a)
    PROVE  /\ PolicyRows' /\ RowsMoveOn
           /\ \A x \in Entries : entry'[x] # entry[x] =>
                  x = editor[a].target /\ entry'[x] = Edited(entry[x], editor[a].fields)
<1> DEFINE x == editor[a].target
           row == editor[a].row
           fields == editor[a].fields
           edited == Edited(row, fields)
<1>1. EditorKnows(entry, editor[a]) /\ PolicyRows
  BY DEF PolicyInv, EditorsKnow
<1>2. /\ x \in Entries /\ RowFits(x, row) /\ RowFits(x, entry[x])
      /\ row.version = entry[x].version => row = entry[x]
      /\ row = Absent => fields # Absent /\ fields.version = 1 /\ RowFits(x, fields)
      /\ row # Absent => Amends(x, fields)
  BY <1>1 DEF EditorKnows, WriteEntry, PolicyRows
<1>3. CASE ~(Unmoved(a, entry[x]) /\ PrintIsFree(x, edited.fingerprint))
  <2>1. UNCHANGED <<document, entry, section>>
    BY <1>3 DEF WriteEntry, Fails
  <2> QED
    BY <1>1, <2>1 DEF PolicyRows, RowsMoveOn
<1>4. CASE Unmoved(a, entry[x]) /\ PrintIsFree(x, edited.fingerprint)
  <2>1. entry' = [entry EXCEPT ![x] = edited] /\ UNCHANGED <<document, section>>
    BY <1>4 DEF WriteEntry
  <2>2. row = entry[x]
    BY <1>2, <1>4 DEF Unmoved
  <2>3. /\ RowFits(x, edited) /\ edited # Absent /\ edited.version = row.version + 1
        /\ row # Absent => edited.source = row.source
    <3>1. CASE row = Absent
      BY <1>2, <3>1 DEF Edited, Absent
    <3>2. CASE row # Absent
      <4> DEFINE more == With(row, fields)
      <4>1. edited = [more EXCEPT !.version = row.version + 1]
        BY <3>2 DEF Edited
      <4>2. /\ {"version", "state", "source", "fingerprint"} \subseteq DOMAIN more
            /\ more.state \in States(x) /\ more.source = row.source
        BY <1>2, <3>2 DEF With, RowFits, Amends
      <4> HIDE DEF more, edited
      <4>3. /\ {"version", "state", "source", "fingerprint"} \subseteq DOMAIN edited
            /\ edited.state \in States(x) /\ edited.source = row.source /\ edited.version = row.version + 1
        BY <4>1, <4>2
      <4> QED
        BY <1>2, <4>3 DEF RowFits, Absent
    <3> QED
      BY <3>1, <3>2
  <2>4. \A y \in Entries : entry'[y] = IF y = x THEN edited ELSE entry[y]
    <3> HIDE DEF edited
    <3> QED
      BY <1>1, <1>2, <2>1 DEF PolicyRows
  <2>5. edited = Edited(entry[x], editor[a].fields)
    BY <2>2
  <2> HIDE DEF edited
  <2>6. PolicyRows'
    <3>1. entry' = [y \in Entries |-> entry'[y]]
      BY <1>1, <1>2, <2>1 DEF PolicyRows
    <3>2. \A y \in Entries : RowFits(y, entry'[y])
      BY <1>1, <2>3, <2>4 DEF PolicyRows
    <3> QED
      BY <1>1, <2>1, <3>1, <3>2 DEF PolicyRows
  <2>7. RowsMoveOn
    BY <1>2, <2>2, <2>3, <2>4 DEF RowsMoveOn
  <2> QED
    BY <2>4, <2>5, <2>6, <2>7
<1> QED
  BY <1>3, <1>4

-----------------------------------------------------------------------------
(* Editors.                                                                *)

\* What another editor has read grows older as rows move on.
LEMMA EditorStillKnows ==
    ASSUME PolicyRows, RowsMoveOn, NEW e, EditorKnows(entry, e)
    PROVE  EditorKnows(entry', e)
<1>1. CASE e.at = "write" /\ e.target \in Entries /\ e.target # "policy"
  <2>1. RowFits(e.target, entry[e.target]) /\ RowFits(e.target, e.row)
    BY <1>1 DEF PolicyRows, EditorKnows
  <2>2. \/ entry'[e.target] = entry[e.target]
        \/ entry'[e.target].version = entry[e.target].version + 1
    BY <1>1 DEF RowsMoveOn
  <2> QED
    BY <1>1, <2>1, <2>2 DEF EditorKnows, RowFits
<1>2. CASE ~(e.at = "write" /\ e.target \in Entries /\ e.target # "policy")
  <2>1. "policy" \notin Entries
    BY PolicyConstants DEF Entries
  <2> QED
    BY <1>2, <2>1 DEF EditorKnows
<1> QED
  BY <1>1, <1>2

LEMMA EditorMoves ==
    ASSUME PolicyInv, RowsMoveOn, NEW a \in Editors, NEW e, EditorKnows(entry', e),
           editor' = [editor EXCEPT ![a] = e]
    PROVE  EditorsKnow'
<1>1. \A b \in Editors : EditorKnows(entry', editor[b])
  BY EditorStillKnows DEF PolicyInv, EditorsKnow
<1>2. \A b \in Editors : EditorKnows(entry', editor'[b])
  BY <1>1 DEF PolicyInv, EditorsKnow
<1> QED
  BY <1>2 DEF PolicyInv, EditorsKnow

LEMMA ReadPolicyStep ==
    ASSUME PolicyInv, NEW a \in Editors, ReadPolicy(a)
    PROVE  UNCHANGED <<document, entry, section, publisher, asker>> /\ EditorsKnow'
<1>1. PICK d \in Documents : Begins(a, document, [target |-> "policy", content |-> d])
  BY DEF ReadPolicy
<1> DEFINE e == With([target |-> "policy", content |-> d], [at |-> "write", row |-> document])
<1>2. e.at = "write" /\ e.target = "policy" /\ e.content \in Documents
  BY DEF With
<1>3. editor' = [editor EXCEPT ![a] = e] /\ UNCHANGED <<document, entry, section, publisher, asker>>
  BY <1>1 DEF Begins
<1> HIDE DEF e
<1>4. EditorKnows(entry', e)
  BY <1>2 DEF EditorKnows
<1>5. RowsMoveOn
  BY <1>3 DEF RowsMoveOn
<1> QED
  BY <1>3, <1>4, <1>5, EditorMoves

LEMMA EntryBegins ==
    ASSUME PolicyInv, NEW a \in Editors, NEW x \in Entries, NEW fields,
           Begins(a, entry[x], [target |-> x, fields |-> fields]),
           entry[x] = Absent => fields # Absent /\ fields.version = 1 /\ RowFits(x, fields),
           entry[x] # Absent => Amends(x, fields)
    PROVE  UNCHANGED <<document, entry, section, publisher, asker>> /\ EditorsKnow'
<1> DEFINE e == With([target |-> x, fields |-> fields], [at |-> "write", row |-> entry[x]])
<1>1. e.at = "write" /\ e.target = x /\ e.fields = fields /\ e.row = entry[x]
  BY DEF With
<1>2. editor' = [editor EXCEPT ![a] = e] /\ UNCHANGED <<document, entry, section, publisher, asker>>
  BY DEF Begins
<1> HIDE DEF e
<1>3. RowFits(x, entry[x])
  BY DEF PolicyInv, PolicyRows
<1>4. EditorKnows(entry', e)
  BY <1>1, <1>2, <1>3 DEF EditorKnows, RowFits
<1>5. RowsMoveOn
  BY <1>2 DEF RowsMoveOn
<1> QED
  BY <1>2, <1>4, <1>5, EditorMoves

LEMMA NewRowFits ==
    ASSUME NEW x \in Entries, NEW row \in NewRows(x)
    PROVE  row # Absent /\ row.version = 1 /\ RowFits(x, row)
<1>1. CASE x \in Tools
  <2>1. PICK s \in Sources, f \in Fingerprints, risk \in Risks : row = Tool(1, s, f, risk)
    BY <1>1 DEF NewRows
  <2> QED
    BY <1>1, <2>1, ToolRow
<1>2. CASE x \notin Tools
  <2>1. PICK s \in Sources, f \in Fingerprints \cup {NoFingerprint} : row = Registration("withheld", s, f)
    BY <1>2 DEF NewRows
  <2> QED
    BY <1>2, <2>1, RegistrationRow DEF Entries
<1> QED
  BY <1>1, <1>2

LEMMA CreateStep ==
    ASSUME PolicyInv, NEW a \in Editors, NEW x \in Entries, Create(a, x)
    PROVE  UNCHANGED <<document, entry, section, publisher, asker>> /\ EditorsKnow'
<1>1. PICK row \in NewRows(x) : Begins(a, Absent, [target |-> x, fields |-> row])
  BY DEF Create
<1>2. entry[x] = Absent
  BY DEF Create
<1> QED
  BY <1>1, <1>2, NewRowFits, EntryBegins

LEMMA ReadEntryStep ==
    ASSUME PolicyInv, NEW a \in Editors, NEW x \in Entries, ReadEntry(a, x)
    PROVE  UNCHANGED <<document, entry, section, publisher, asker>> /\ EditorsKnow'
<1>1. PICK fields \in Fields(x) : Begins(a, entry[x], [target |-> x, fields |-> fields])
  BY DEF ReadEntry
<1>2. Amends(x, fields)
  BY DEF Fields, Amends
<1>3. entry[x] # Absent
  BY DEF ReadEntry
<1> QED
  BY <1>1, <1>2, <1>3, EntryBegins

LEMMA WritePolicyStep ==
    ASSUME PolicyInv, NEW a \in Editors, WritePolicy(a)
    PROVE  /\ UNCHANGED <<entry, section, publisher, asker>> /\ PolicyRows' /\ EditorsKnow'
           /\ document' # document => document'.version = document.version + 1
<1>1. UNCHANGED <<entry, section, publisher, asker>> /\ Ends(a)
  BY DEF WritePolicy, Fails
<1>2. "policy" \notin Entries
  BY PolicyConstants DEF Entries
<1>3. editor[a].content \in Documents
  BY <1>2 DEF WritePolicy, PolicyInv, EditorsKnow, EditorKnows
<1>4. \/ UNCHANGED document
      \/ document' = [version |-> document.version + 1, content |-> editor[a].content]
  BY DEF WritePolicy, Fails, Unmoved
<1>5. PolicyRows'
  BY <1>1, <1>3, <1>4 DEF PolicyInv, PolicyRows
<1>6. RowsMoveOn
  BY <1>1 DEF RowsMoveOn
<1>7. EditorKnows(entry', [at |-> "over"])
  BY DEF EditorKnows
<1>8. EditorsKnow'
  BY <1>1, <1>6, <1>7, EditorMoves DEF Ends
<1> QED
  BY <1>1, <1>4, <1>5, <1>8

LEMMA WriteEntryKnows ==
    ASSUME PolicyInv, NEW a \in Editors, WriteEntry(a)
    PROVE  UNCHANGED <<document, section, publisher, asker>> /\ EditorsKnow'
<1>1. UNCHANGED <<document, section, publisher, asker>> /\ Ends(a)
  BY DEF WriteEntry, Fails
<1>2. EditorKnows(entry', [at |-> "over"])
  BY DEF EditorKnows
<1> QED
  BY <1>1, <1>2, WriteEntryStep, EditorMoves DEF Ends

\* Of one editor's step.
EditorStep(a) ==
    ReadPolicy(a) \/ WritePolicy(a) \/ WriteEntry(a) \/ \E x \in Entries : Create(a, x) \/ ReadEntry(a, x)
LEMMA EditorStepKeeps ==
    ASSUME PolicyInv, NEW a \in Editors, EditorStep(a)
    PROVE  /\ PolicyRows' /\ EditorsKnow' /\ RowsMoveOn /\ UNCHANGED <<publisher, asker>>
           /\ document' # document => document'.version = document.version + 1
           /\ \A b \in Editors, x \in Entries :
                  editor[b].at = "write" /\ editor'[b].at = "over" /\ entry'[x] # entry[x] =>
                      x = editor[b].target /\ entry'[x] = Edited(entry[x], editor[b].fields)
<1>1. CASE ReadPolicy(a) \/ \E x \in Entries : Create(a, x) \/ ReadEntry(a, x)
  <2>1. UNCHANGED <<document, entry, section, publisher, asker>> /\ EditorsKnow'
    BY <1>1, ReadPolicyStep, CreateStep, ReadEntryStep
  <2> QED
    BY <2>1 DEF PolicyInv, PolicyRows, RowsMoveOn
<1>2. CASE WritePolicy(a)
  BY <1>2, WritePolicyStep DEF RowsMoveOn
<1>3. CASE WriteEntry(a)
  <2>1. ASSUME NEW b \in Editors, editor[b].at = "write", editor'[b].at = "over" PROVE b = a
    BY <1>3, <2>1 DEF WriteEntry, Fails, Ends, PolicyInv, EditorsKnow
  <2> QED
    BY <1>3, <2>1, WriteEntryStep, WriteEntryKnows
<1> QED
  BY <1>1, <1>2, <1>3 DEF EditorStep

-----------------------------------------------------------------------------
(* Publishers.                                                             *)

PublisherStep(p) == CompileSection(p) \/ PublishSection(p)
LEMMA PublisherStepKeeps ==
    ASSUME PolicyInv, NEW p \in Publishers, PublisherStep(p)
    PROVE  PolicyRows' /\ PublishersKnow' /\ UNCHANGED <<document, entry, editor, asker>>
<1>1. PublisherKnows(publisher[p])
  BY DEF PolicyInv, PublishersKnow
<1>2. CASE CompileSection(p)
  <2>1. SectionFits(SectionOf(document))
    BY SectionOfFits DEF PolicyInv, PolicyRows
  <2>2. PublisherKnows([at |-> "publish", tools |-> SectionOf(document)])
    BY <2>1 DEF PublisherKnows
  <2> QED
    BY <1>2, <2>2 DEF CompileSection, PolicyInv, PolicyRows, PublishersKnow
<1>3. CASE PublishSection(p)
  <2>1. PublisherKnows([at |-> "over"])
    BY DEF PublisherKnows
  <2>2. SectionFits(section')
    BY <1>1, <1>3 DEF PublishSection, PublisherKnows, PolicyInv, PolicyRows
  <2> QED
    BY <1>3, <2>1, <2>2 DEF PublishSection, PolicyInv, PolicyRows, PublishersKnow
<1> QED
  BY <1>2, <1>3 DEF PublisherStep

-----------------------------------------------------------------------------
(* Askers.                                                                 *)

\* What each of the gates asks for, after a step.
LEMMA GatesAfter ==
    ASSUME NEW k \in Askers
    PROVE  LET call == asker'[k]
               row == entry'[call.tool]
           IN  /\ OpenTo(asker[k])' \subseteq Gates
               /\ document' # Absent /\ Allows(document'.content, call.tool) => "policy" \in OpenTo(asker[k])'
               /\ ToolFits(row, call) => "tool" \in OpenTo(asker[k])'
               /\ row # Absent /\ row.source = "built_in" =>
                      {"registration", "list"} \subseteq OpenTo(asker[k])'
               /\ row # Absent
                  /\ (\E m \in Registrations :
                          entry'[m] # Absent /\ entry'[m].fingerprint = call.fingerprint /\ Reviewed(entry'[m], row))
                  => "registration" \in OpenTo(asker[k])'
               /\ "id" \in DOMAIN call /\ document' # Absent /\ call.id \in document'.content.mcp
                  => "list" \in OpenTo(asker[k])'
  BY DEF OpenTo, Gates, Registered

\* A call that does not move keeps what it knows, while its gates open.
LEMMA AskerStillKnows ==
    ASSUME NEW call, NEW gates, NEW more, AskerKnows(entry, call, gates), RowsMoveOn,
           gates \subseteq more, more \subseteq Gates, call.at = "over" => more = gates
    PROVE  AskerKnows(entry', call, more)
<1>1. ASSUME call.at \in {"registration", "policy", "section"}, call.row # Absent
      PROVE  entry'[call.tool] # Absent /\ entry'[call.tool].source = call.row.source
  BY <1>1 DEF AskerKnows, RowsMoveOn, Entries
<1> QED
  BY <1>1, Zenon DEF AskerKnows

LEMMA OthersKeep ==
    ASSUME PolicyInv, RowsMoveOn, Watch, NEW k \in Askers, asker'[k] = asker[k]
    PROVE  AskerKnows(entry', asker[k], opened'[k])
<1>1. AskerKnows(entry, asker[k], opened[k])
  BY DEF PolicyInv, AskersKnow
<1>2. OpenTo(asker[k])' \subseteq Gates
  BY GatesAfter
<1>3. /\ opened[k] \subseteq opened'[k] /\ opened'[k] \subseteq Gates
      /\ asker[k].at = "over" => opened'[k] = opened[k]
  <2>1. opened'[k] = IF asker'[k].at = "new" \/ asker[k].at = "over" THEN opened[k]
                     ELSE opened[k] \cup OpenTo(asker[k])'
    BY DEF Watch
  <2> QED
    BY <1>1, <1>2, <2>1 DEF AskerKnows
<1> QED
  BY <1>1, <1>3, AskerStillKnows

LEMMA AskerMoves ==
    ASSUME PolicyInv, RowsMoveOn, Watch, NEW k \in Askers, NEW call,
           asker' = [asker EXCEPT ![k] = call], AskerKnows(entry', call, opened'[k])
    PROVE  AskersKnow'
<1>1. asker'[k] = call /\ \A j \in Askers \ {k} : asker'[j] = asker[j]
  BY DEF PolicyInv, AskersKnow
<1>2. \A j \in Askers : AskerKnows(entry', asker'[j], opened'[j])
  BY <1>1, OthersKeep
<1>3. asker' = [j \in Askers |-> asker'[j]] /\ opened' = [j \in Askers |-> opened'[j]]
  BY DEF Watch, PolicyInv, AskersKnow
<1> QED
  BY <1>2, <1>3 DEF AskersKnow

\* The gates of a call that has just read something.
LEMMA GatesOpen ==
    ASSUME PolicyInv, Watch, NEW k \in Askers, asker[k].at # "over", asker'[k].at # "new"
    PROVE  opened'[k] = opened[k] \cup OpenTo(asker[k])' /\ opened'[k] \subseteq Gates
<1>1. opened[k] \subseteq Gates
  BY DEF PolicyInv, AskersKnow, AskerKnows
<1>2. OpenTo(asker[k])' \subseteq Gates
  BY GatesAfter
<1> QED
  BY <1>1, <1>2 DEF Watch

LEMMA ReadToolStep ==
    ASSUME PolicyInv, Watch, NEW k \in Askers, ReadTool(k)
    PROVE  AskersKnow'
<1>1. PICK t \in Tools, f \in Fingerprints, risk \in Risks :
          asker' = [asker EXCEPT ![k] =
              [at |-> "registration", tool |-> t, fingerprint |-> f, risk |-> risk, row |-> entry[t]]]
  BY DEF ReadTool
<1> DEFINE call == [at |-> "registration", tool |-> t, fingerprint |-> f, risk |-> risk, row |-> entry[t]]
<1>2. /\ call.at = "registration" /\ call.tool = t /\ call.risk = risk /\ call.row = entry[t]
      /\ {"tool", "fingerprint", "risk", "row"} \subseteq DOMAIN call
  OBVIOUS
<1>3. asker' = [asker EXCEPT ![k] = call] /\ UNCHANGED <<document, entry>> /\ asker[k].at = "new"
  BY <1>1 DEF ReadTool
<1> HIDE DEF call
<1>4. asker'[k] = call
  BY <1>3 DEF PolicyInv, AskersKnow
<1>5. opened'[k] = opened[k] \cup OpenTo(asker[k])' /\ opened'[k] \subseteq Gates
  BY <1>2, <1>3, <1>4, GatesOpen
<1>6. /\ ToolFits(entry[t], call) => "tool" \in OpenTo(asker[k])'
      /\ entry[t] # Absent /\ entry[t].source = "built_in" =>
             {"registration", "list"} \subseteq OpenTo(asker[k])'
  BY <1>2, <1>3, <1>4, GatesAfter
<1>7. AskerKnows(entry', call, opened'[k])
  BY <1>2, <1>3, <1>5, <1>6 DEF AskerKnows
<1> QED
  BY <1>3, <1>7, AskerMoves DEF RowsMoveOn

LEMMA ReadRegistrationStep ==
    ASSUME PolicyInv, Watch, NEW k \in Askers, ReadRegistration(k)
    PROVE  AskersKnow'
<1> DEFINE old == asker[k]
           found == Registered(old.fingerprint)
<1>1. PICK m \in IF found = {} THEN {NoRegistration} ELSE found :
          asker' = [asker EXCEPT ![k] =
              With(old, [at |-> "policy", id |-> m, registration |-> IF found = {} THEN Absent ELSE entry[m]])]
  BY DEF ReadRegistration
<1> DEFINE call == With(old, [at |-> "policy", id |-> m,
                              registration |-> IF found = {} THEN Absent ELSE entry[m]])
<1>2. AskerKnows(entry, old, opened[k]) /\ old.at = "registration"
  BY DEF ReadRegistration, PolicyInv, AskersKnow
<1>3. /\ call.at = "policy" /\ call.tool = old.tool /\ call.risk = old.risk /\ call.row = old.row
      /\ call.fingerprint = old.fingerprint
      /\ call.registration = IF found = {} THEN Absent ELSE entry[m]
      /\ {"tool", "fingerprint", "risk", "row", "id", "registration"} \subseteq DOMAIN call
  BY <1>2 DEF AskerKnows, With
<1>4. asker' = [asker EXCEPT ![k] = call] /\ UNCHANGED <<document, entry>>
  BY <1>1 DEF ReadRegistration
<1> HIDE DEF call
<1>5. asker'[k] = call
  BY <1>4 DEF PolicyInv, AskersKnow
<1>6. opened'[k] = opened[k] \cup OpenTo(asker[k])' /\ opened'[k] \subseteq Gates
  BY <1>2, <1>3, <1>5, GatesOpen
<1>7. call.row # Absent /\ Reviewed(call.registration, call.row) => "registration" \in OpenTo(asker[k])'
  <2> SUFFICES ASSUME call.row # Absent, Reviewed(call.registration, call.row)
               PROVE  "registration" \in OpenTo(asker[k])'
    OBVIOUS
  <2>1. m \in found /\ call.registration = entry[m]
    BY <1>1, <1>3 DEF Reviewed
  <2>2. m \in Registrations /\ entry[m] # Absent /\ entry[m].fingerprint = call.fingerprint
    BY <1>3, <2>1 DEF Registered
  <2>3. entry[call.tool] # Absent /\ entry[call.tool].source = call.row.source
    BY <1>2, <1>3 DEF AskerKnows
  <2>4. Reviewed(entry[m], entry[call.tool])
    BY <2>1, <2>3 DEF Reviewed
  <2> QED
    BY <1>4, <1>5, <2>2, <2>3, <2>4, GatesAfter
<1>8. ToolFits(call.row, call) <=> ToolFits(old.row, old)
  BY <1>3 DEF ToolFits
<1>9. AskerKnows(entry', call, opened'[k])
  BY <1>2, <1>3, <1>4, <1>6, <1>7, <1>8 DEF AskerKnows
<1> QED
  BY <1>4, <1>9, AskerMoves DEF RowsMoveOn

LEMMA ReadDocumentStep ==
    ASSUME PolicyInv, Watch, NEW k \in Askers, ReadDocument(k)
    PROVE  AskersKnow'
<1> DEFINE old == asker[k]
           call == With(old, [at |-> "section", document |-> document])
<1>1. AskerKnows(entry, old, opened[k]) /\ old.at = "policy"
  BY DEF ReadDocument, PolicyInv, AskersKnow
<1>2. /\ call.at = "section" /\ call.tool = old.tool /\ call.risk = old.risk /\ call.row = old.row
      /\ call.fingerprint = old.fingerprint /\ call.registration = old.registration /\ call.id = old.id
      /\ call.document = document
      /\ {"tool", "fingerprint", "risk", "row", "id", "registration", "document"} \subseteq DOMAIN call
  BY <1>1 DEF AskerKnows, With
<1>3. asker' = [asker EXCEPT ![k] = call] /\ UNCHANGED <<document, entry>>
  BY DEF ReadDocument
<1> HIDE DEF call
<1>4. asker'[k] = call
  BY <1>3 DEF PolicyInv, AskersKnow
<1>5. opened'[k] = opened[k] \cup OpenTo(asker[k])' /\ opened'[k] \subseteq Gates
  BY <1>1, <1>2, <1>4, GatesOpen
<1>6. /\ document # Absent /\ Allows(document.content, call.tool) => "policy" \in OpenTo(asker[k])'
      /\ document # Absent /\ call.id \in document.content.mcp => "list" \in OpenTo(asker[k])'
  BY <1>2, <1>3, <1>4, GatesAfter
<1>7. ToolFits(call.row, call) <=> ToolFits(old.row, old)
  BY <1>2 DEF ToolFits
<1>8. document = Absent \/ document.content \in Documents
  BY DEF PolicyInv, PolicyRows
<1>9. AskerKnows(entry', call, opened'[k])
  BY <1>1, <1>2, <1>3, <1>5, <1>6, <1>7, <1>8 DEF AskerKnows
<1> QED
  BY <1>3, <1>9, AskerMoves DEF RowsMoveOn

\* The snapshot takes tools away, and rules with them; it allows nothing that
\* the policy denies, and leaves the list of registrations alone.
LEMMA NarrowedAllowsLess ==
    ASSUME NEW d \in Documents, NEW s, NEW t
    PROVE  /\ Allows(Narrowed(d, s), t) => Allows(d, t)
           /\ Narrowed(d, s).mcp = d.mcp /\ ApprovalFor(Narrowed(d, s), t) \in Modes
<1> DEFINE layer == Narrowed(d, s)
<1>1. /\ d \in [posture : {"allow", "deny"}, tools : SUBSET Tools, denied : SUBSET Tools,
                mcp : SUBSET Registrations, mode : Modes, modes : UNION {[T -> Modes] : T \in SUBSET Tools}]
  BY PolicyConstants
<1>2. PICK T \in SUBSET Tools : d.modes \in [T -> Modes]
  BY <1>1
<1>3. ApprovalFor(d, t) \in Modes
  BY <1>1, <1>2 DEF ApprovalFor
<1>4. CASE s.posture = "allow"
  BY <1>3, <1>4 DEF Narrowed
<1>5. CASE s.posture # "allow"
  <2>1. layer = [d EXCEPT !.tools = d.tools \cap s.tools,
                          !.modes = Restrict(d.modes, DOMAIN d.modes \cap s.tools)]
    BY <1>5 DEF Narrowed
  <2>2. /\ layer.tools = d.tools \cap s.tools /\ layer.posture = d.posture /\ layer.denied = d.denied
        /\ layer.mcp = d.mcp /\ layer.mode = d.mode
        /\ layer.modes = [x \in DOMAIN d.modes \cap s.tools |-> d.modes[x]]
    BY <1>1, <2>1 DEF Restrict
  <2> HIDE DEF layer
  <2>3. ApprovalFor(layer, t) \in Modes
    BY <1>1, <1>2, <2>2 DEF ApprovalFor
  <2>4. Allows(layer, t) => Allows(d, t)
    BY <2>2 DEF Allows
  <2> QED
    BY <2>2, <2>3, <2>4 DEF layer
<1> QED
  BY <1>4, <1>5

LEMMA EvaluateStep ==
    ASSUME PolicyInv, Watch, NEW k \in Askers, EvaluateCall(k)
    PROVE  AskersKnow'
<1> DEFINE old == asker[k]
           Ended(v) == [at |-> "over", tool |-> old.tool, fingerprint |-> old.fingerprint,
                       risk |-> old.risk, verdict |-> v]
           layer(s) == Narrowed(old.document.content, s)
<1>1. AskerKnows(entry, old, opened[k]) /\ old.at = "section"
  BY DEF EvaluateCall, PolicyInv, AskersKnow
<1>2. PICK s, v :
          /\ asker' = [asker EXCEPT ![k] = Ended(v)]
          /\ v # Denied =>
                 /\ old.document # Absent /\ Passes(old, layer(s))
                 /\ v \in Modes /\ v >= Larger(old.risk, ApprovalFor(layer(s), old.tool))
  BY DEF EvaluateCall
<1>3. UNCHANGED <<document, entry>>
  BY DEF EvaluateCall
<1>4. asker'[k] = Ended(v)
  BY <1>2 DEF PolicyInv, AskersKnow
<1>5. opened[k] \subseteq opened'[k] /\ opened'[k] \subseteq Gates
  BY <1>1, <1>4, GatesOpen
<1>6. ASSUME v # Denied PROVE opened[k] = Gates /\ v >= old.risk
  <2>1. old.document.content \in Documents
    BY <1>1, <1>2, <1>6 DEF AskerKnows
  <2>2. /\ Allows(layer(s), old.tool) => Allows(old.document.content, old.tool)
        /\ layer(s).mcp = old.document.content.mcp /\ ApprovalFor(layer(s), old.tool) \in Modes
    BY <2>1, NarrowedAllowsLess
  <2>3. /\ Allows(layer(s), old.tool) /\ ToolFits(old.row, old)
        /\ old.row.source # "built_in" => old.id \in layer(s).mcp /\ Reviewed(old.registration, old.row)
    BY <1>2, <1>6 DEF Passes
  <2> HIDE DEF layer
  <2>4. "policy" \in opened[k] /\ "tool" \in opened[k]
    BY <1>1, <1>2, <1>6, <2>2, <2>3 DEF AskerKnows
  <2>5. old.row # Absent
    BY <2>3 DEF ToolFits
  <2>6. "registration" \in opened[k] /\ "list" \in opened[k]
    BY <1>1, <1>2, <1>6, <2>2, <2>3, <2>5 DEF AskerKnows
  <2>7. v >= old.risk
    <3>1. old.risk \in 0 .. 2
      BY <1>1, PolicyConstants DEF AskerKnows, Modes
    <3> QED
      BY <1>2, <1>6, <2>2, <3>1 DEF Larger, Modes
  <2> QED
    BY <1>1, <2>4, <2>6, <2>7 DEF AskerKnows, Gates
<1>7. AskerKnows(entry', Ended(v), opened'[k])
  BY <1>5, <1>6 DEF AskerKnows
<1> QED
  BY <1>2, <1>3, <1>7, AskerMoves DEF RowsMoveOn

AskerStep(k) == ReadTool(k) \/ ReadRegistration(k) \/ ReadDocument(k) \/ EvaluateCall(k)
LEMMA AskerStepKeeps ==
    ASSUME PolicyInv, Watch, NEW k \in Askers, AskerStep(k)
    PROVE  AskersKnow' /\ UNCHANGED <<document, entry, section, editor, publisher>>
<1>1. AskersKnow'
  BY ReadToolStep, ReadRegistrationStep, ReadDocumentStep, EvaluateStep DEF AskerStep
<1>2. UNCHANGED <<document, entry, section, editor, publisher>>
  BY DEF AskerStep, ReadTool, ReadRegistration, ReadDocument, EvaluateCall
<1> QED
  BY <1>1, <1>2

-----------------------------------------------------------------------------
\* Every step keeps the invariant, and an edit keeps what it does not name.
LEMMA PolicyStep ==
    ASSUME PolicyInv, PolicyNext
    PROVE  PolicyInv' /\ EditsKeepTheRest
<1>1. Watch
  BY DEF PolicyNext
<1>2. CASE \E a \in Editors : EditorStep(a)
  <2>1. PICK a \in Editors : EditorStep(a)
    BY <1>2
  <2>2. /\ PolicyRows' /\ EditorsKnow' /\ RowsMoveOn /\ UNCHANGED <<publisher, asker>> /\ EditsKeepTheRest
    BY <2>1, EditorStepKeeps DEF EditsKeepTheRest
  <2>3. AskersKnow'
    BY <1>1, <2>2, OthersKeep DEF PolicyInv, AskersKnow, Watch
  <2> QED
    BY <2>2, <2>3 DEF PolicyInv, PublishersKnow
<1>3. CASE \E p \in Publishers : PublisherStep(p)
  <2>1. PICK p \in Publishers : PublisherStep(p)
    BY <1>3
  <2>2. PolicyRows' /\ PublishersKnow' /\ UNCHANGED <<document, entry, editor, asker>>
    BY <2>1, PublisherStepKeeps
  <2>3. RowsMoveOn
    BY <2>2 DEF RowsMoveOn
  <2>4. AskersKnow'
    BY <1>1, <2>2, <2>3, OthersKeep DEF PolicyInv, AskersKnow, Watch
  <2> QED
    BY <2>2, <2>4 DEF PolicyInv, EditorsKnow, EditsKeepTheRest
<1>4. CASE \E k \in Askers : AskerStep(k)
  BY <1>1, <1>4, AskerStepKeeps DEF PolicyInv, PolicyRows, EditorsKnow, PublishersKnow, EditsKeepTheRest
<1> QED
  BY <1>2, <1>3, <1>4 DEF PolicyNext, Step, EditorStep, PublisherStep, AskerStep

LEMMA PolicyInvariant == PolicySpec => []PolicyInv
<1>1. PolicyInv /\ UNCHANGED policyVars => PolicyInv'
  BY DEF PolicyInv, PolicyRows, EditorsKnow, PublishersKnow, AskersKnow, policyVars
<1>2. PolicyInv /\ [PolicyNext]_policyVars => PolicyInv'
  BY <1>1, PolicyStep
<1> QED
  BY <1>2, PolicyInitially, PTL DEF PolicySpec

\* Policies, catalog rows, sections and invocations are always well-typed.
THEOREM PolicyTypeCorrect == PolicySpec => []PolicyTypeOK
<1>1. PolicyInv => PolicyTypeOK
  BY DEF PolicyInv, PolicyRows, EditorsKnow, PublishersKnow, AskersKnow, PolicyTypeOK,
         RowFits, SectionFits, EditorKnows, PublisherKnows, AskerKnows
<1> QED
  BY <1>1, PolicyInvariant, PTL

\* A call that may go on has found each gate open at some time since it
\* arrived, whatever administrators and snapshots have done between its reads,
\* and an edit keeps the part of a row that it does not name
\* (routes/tools.rs, create_tool_decision and the mutations).
THEOREM PolicyAlwaysStands == PolicySpec => PolicyStands
<1>1. PolicyInv => DecisionsWereOpen
  BY DEF PolicyInv, AskersKnow, AskerKnows, DecisionsWereOpen
<1>2. PolicyInv /\ PolicyNext => EditsKeepTheRest
  BY PolicyStep
<1>3. PolicyInv' => DecisionsWereOpen'
  BY <1>1, PTL
<1> QED
  BY <1>2, <1>3, PolicyInvariant, PTL DEF PolicySpec, PolicyStands

-----------------------------------------------------------------------------
(***************************************************************************)
(* Runs: a timeline tells the whole history of its run.                    *)
(***************************************************************************)
RunStates == {"queued", "running"} \cup Outcomes
EventKinds == RunStates \cup {"dispatching", "note"}
RunRow == [state : RunStates, version : 1 .. 4, parent : Nat, attempt : Nat]
EventRow == [seq : Nat, kind : EventKinds, version : Nat]

\* A state is reached at one version, a final one at two; a retry comes after
\* its parent, and no attempt is higher than the number of runs.
RunFits(r, row) ==
    /\ row.state = "queued" => row.version = 1
    /\ row.state = "running" => row.version = 3
    /\ row.parent \in 0 .. (r - 1) /\ row.attempt \in 1 .. r

\* What TimelineTellsRun says of one run: its events tell its state and version.
StateEvents(told) == {e \in told : e.kind # "note"}
Tells(told, state, version) ==
    /\ told \subseteq EventRow /\ IsFiniteSet(told)
    /\ {e.seq : e \in told} = 1 .. Cardinality(told)
    /\ {e.version : e \in StateEvents(told)} = 1 .. version
    /\ Cardinality(StateEvents(told)) = version
    /\ \A e, f \in StateEvents(told) : e.seq < f.seq => e.version < f.version
    /\ \E e \in StateEvents(told) : e.version = version /\ e.kind = state

RunRows ==
    /\ lifecycle \in {"active", "closed"}
    /\ run \in Seq(RunRow) /\ timeline \in Seq(SUBSET EventRow) /\ Len(timeline) = Len(run)
    /\ \A r \in 1 .. Len(run) : RunFits(r, run[r]) /\ Tells(timeline[r], run[r].state, run[r].version)

\* What a call has read.  Sequences and attempts only grow: the number that a
\* call has read is at most the next one.
CallKnows(runs, told, c) ==
    \/ c = Idle
    \/ /\ {"phase", "op", "run", "next", "state"} \subseteq DOMAIN c
       /\ c.op = "transition" /\ c.phase \in {"sequence", "write"} /\ c.run \in 1 .. Len(runs)
       /\ c.next \in {"running"} \cup Outcomes /\ CanBecome(c.state, c.next)
       /\ c.phase = "write" => c.seq \in 1 .. (Cardinality(told[c.run]) + 1)
    \/ /\ {"phase", "op", "run"} \subseteq DOMAIN c
       /\ c.op = "note" /\ c.phase \in {"sequence", "write"} /\ c.run \in 1 .. Len(runs)
       /\ c.phase = "write" => c.seq \in 1 .. (Cardinality(told[c.run]) + 1)
    \/ /\ {"phase", "op", "run", "state"} \subseteq DOMAIN c
       /\ c.op = "retry" /\ c.phase \in {"attempt", "write"} /\ c.run \in 1 .. Len(runs)
       /\ c.state \in Retryable
       /\ c.phase = "write" =>
              c.attempt \in 1 .. (Len(runs) + 1) /\ c.attempt > runs[c.run].attempt
    \/ c = [phase |-> "write", op |-> "close"]
RunCallsKnow ==
    /\ runCall = [c \in RunCalls |-> runCall[c]]
    /\ \A c \in RunCalls : CallKnows(run, timeline, runCall[c])

\* The runs and the retries on their way stay within the bound.
RunsBounded == Len(run) + Cardinality({c \in RunCalls : Retrying(c)}) <= MaxRuns

RunInv == RunRows /\ RetriesAreLinked /\ RunCallsKnow /\ RunsBounded

-----------------------------------------------------------------------------
(* Numbers.                                                                *)

\* Intervals up to n are ordered by strict inclusion, which is well-founded.
LEMMA GreatestExists ==
    ASSUME NEW n \in Nat, NEW S \in SUBSET (0 .. n), S # {}
    PROVE  \E i \in S : \A j \in S : i >= j
<1> DEFINE Less == StrictSubsetOrdering(0 .. n)
           T == {X \in SUBSET (0 .. n) : \E i \in S : X = i .. n}
<1>1. IsFiniteSet(0 .. n)
  BY FS_Interval
<1>2. IsWellFoundedOn(Less, FiniteSubsetsOf(0 .. n))
  BY FS_StrictSubsetOrderingWellFounded
<1>3. T \subseteq FiniteSubsetsOf(0 .. n)
  BY <1>1, FS_Subset DEF FiniteSubsetsOf
<1>4. PICK X \in T : \A Y \in T : ~ (<<Y, X>> \in Less)
  <2>1. PICK m \in S : TRUE
    OBVIOUS
  <2>2. m .. n \in T
    OBVIOUS
  <2> HIDE DEF Less, T
  <2> QED
    BY <1>2, <1>3, <2>2, WFMin
<1>5. PICK i \in S : X = i .. n
  BY <1>4
<1>6. ASSUME NEW j \in S, j > i PROVE FALSE
  <2>1. j .. n \in T
    BY <1>6
  <2>2. j .. n # i .. n /\ j .. n \subseteq i .. n
    <3>1. i \in i .. n /\ i \notin j .. n
      BY <1>6
    <3> QED
      BY <1>6, <3>1
  <2>3. <<j .. n, X>> \in Less
    BY <1>4, <1>5, <2>1, <2>2 DEF StrictSubsetOrdering
  <2> QED
    BY <1>4, <2>1, <2>3
<1> QED
  BY <1>6

LEMMA MaxIsGreatest ==
    ASSUME NEW n \in Nat, NEW S \in SUBSET (0 .. n), S # {}
    PROVE  Max(S) \in S /\ \A j \in S : Max(S) >= j
  BY GreatestExists DEF Max

LEMMA NextSequenceFollows ==
    ASSUME NEW r, NEW state, NEW version \in Nat \ {0}, Tells(timeline[r], state, version)
    PROVE  NextSequence(r) = Cardinality(timeline[r]) + 1
<1> DEFINE n == Cardinality(timeline[r])
<1>1. n \in Nat /\ {e.seq : e \in timeline[r]} = 1 .. n
  BY FS_CardinalityType DEF Tells
<1>2. n # 0
  BY <1>1, FS_EmptySet DEF Tells, StateEvents
<1> HIDE DEF n
<1>3. Max(1 .. n) = n
  <2>1. Max(1 .. n) \in 1 .. n /\ \A j \in 1 .. n : Max(1 .. n) >= j
    <3>1. 1 .. n \in SUBSET (0 .. n) /\ 1 .. n # {}
      BY <1>1, <1>2
    <3> QED
      BY <1>1, <3>1, MaxIsGreatest
  <2> QED
    BY <1>1, <1>2, <2>1
<1>4. NextSequence(r) = 1 + Max(1 .. n)
  BY <1>1 DEF NextSequence
<1> QED
  BY <1>1, <1>3, <1>4 DEF n

-----------------------------------------------------------------------------
(* Timelines.                                                              *)

\* An event with the next sequence is new.
LEMMA EventIsNew ==
    ASSUME NEW told, NEW state, NEW version, Tells(told, state, version),
           NEW e \in EventRow, e.seq = Cardinality(told) + 1
    PROVE  /\ e \notin told /\ IsFiniteSet(told \cup {e}) /\ told \cup {e} \subseteq EventRow
           /\ Cardinality(told \cup {e}) = Cardinality(told) + 1
           /\ {f.seq : f \in told \cup {e}} = 1 .. Cardinality(told \cup {e})
           /\ \A f \in told : f.seq < e.seq
<1> DEFINE n == Cardinality(told)
<1>1. n \in Nat /\ {f.seq : f \in told} = 1 .. n
  BY FS_CardinalityType DEF Tells
<1>2. \A f \in told : f.seq \in 1 .. n
  BY <1>1
<1>3. e \notin told
  BY <1>1, <1>2
<1>4. Cardinality(told \cup {e}) = n + 1 /\ IsFiniteSet(told \cup {e})
  BY <1>3, FS_AddElement DEF Tells
<1>5. {f.seq : f \in told \cup {e}} = 1 .. (n + 1)
  <2>1. {f.seq : f \in told \cup {e}} = {f.seq : f \in told} \cup {e.seq}
    OBVIOUS
  <2>2. e.seq = n + 1
    OBVIOUS
  <2> HIDE DEF n
  <2>3. 1 .. (n + 1) = (1 .. n) \cup {n + 1}
    BY <1>1
  <2> QED
    BY <1>1, <2>1, <2>2, <2>3
<1>6. told \cup {e} \subseteq EventRow
  BY DEF Tells
<1>7. \A f \in told : f.seq < e.seq
  BY <1>1, <1>2
<1> QED
  BY <1>3, <1>4, <1>5, <1>6, <1>7

LEMMA NoteTells ==
    ASSUME NEW told, NEW state, NEW version, Tells(told, state, version),
           NEW e \in EventRow, e.seq = Cardinality(told) + 1, e.kind = "note"
    PROVE  Tells(told \cup {e}, state, version)
<1>1. StateEvents(told \cup {e}) = StateEvents(told)
  BY DEF StateEvents
<1>2. /\ IsFiniteSet(told \cup {e}) /\ told \cup {e} \subseteq EventRow
      /\ {f.seq : f \in told \cup {e}} = 1 .. Cardinality(told \cup {e})
  BY EventIsNew
<1> QED
  BY <1>1, <1>2, Zenon DEF Tells

LEMMA StateTells ==
    ASSUME NEW told, NEW state, NEW version \in Nat, Tells(told, state, version),
           NEW e \in EventRow, e.seq = Cardinality(told) + 1, e.kind # "note", e.version = version + 1
    PROVE  Tells(told \cup {e}, e.kind, version + 1)
<1> DEFINE states == StateEvents(told)
           tells == StateEvents(told \cup {e})
<1>1. tells = states \cup {e} /\ e \notin states
  BY EventIsNew DEF StateEvents
<1>2. states \subseteq told /\ {f.version : f \in states} = 1 .. version /\ Cardinality(states) = version
  BY DEF Tells, StateEvents
<1>3. IsFiniteSet(states)
  BY <1>2, FS_Subset DEF Tells
<1>4. \A f \in states : f.version \in 1 .. version /\ f.seq < e.seq
  BY <1>2, EventIsNew
<1>5. \A f, g \in states : f.seq < g.seq => f.version < g.version
  BY DEF Tells
<1>6. \A f \in states : f.seq \in Nat
  BY <1>2 DEF Tells, EventRow
<1> HIDE DEF states, tells
<1>7. Cardinality(tells) = version + 1
  BY <1>1, <1>2, <1>3, FS_AddElement
<1>8. {f.version : f \in tells} = 1 .. (version + 1)
  <2>1. {f.version : f \in tells} = {f.version : f \in states} \cup {e.version}
    BY <1>1
  <2> QED
    BY <1>2, <2>1
<1>9. \A f, g \in tells : f.seq < g.seq => f.version < g.version
  <2> SUFFICES ASSUME NEW f \in tells, NEW g \in tells, f.seq < g.seq
               PROVE  f.version < g.version
    OBVIOUS
  <2>1. e.seq \in Nat
    BY DEF EventRow
  <2>2. CASE f \in states /\ g \in states
    BY <1>5, <2>2
  <2>3. CASE f \in states /\ g = e
    BY <1>4, <2>3
  <2>4. CASE f = e
    BY <1>1, <1>4, <1>6, <2>1, <2>4
  <2> QED
    BY <1>1, <2>2, <2>3, <2>4
<1>10. \E f \in tells : f.version = version + 1 /\ f.kind = e.kind
  BY <1>1
<1>11. /\ IsFiniteSet(told \cup {e}) /\ told \cup {e} \subseteq EventRow
       /\ {f.seq : f \in told \cup {e}} = 1 .. Cardinality(told \cup {e})
  BY EventIsNew
<1> QED
  BY <1>7, <1>8, <1>9, <1>10, <1>11, Zenon DEF Tells, tells

-----------------------------------------------------------------------------
(* Calls.                                                                  *)

\* No row goes, no attempt changes, no event goes.
RowsGrow ==
    /\ Len(run) <= Len(run')
    /\ \A r \in 1 .. Len(run) :
           run'[r].attempt = run[r].attempt /\ Cardinality(timeline[r]) <= Cardinality(timeline'[r])

LEMMA RowTypes ==
    ASSUME RunRows
    PROVE  /\ Len(run) \in Nat /\ Runs = 1 .. Len(run) /\ Cardinality(Runs) = Len(run)
           /\ \A r \in 1 .. Len(run) :
                  run[r] \in RunRow /\ Cardinality(timeline[r]) \in Nat /\ timeline[r] \in SUBSET EventRow
<1>1. Len(run) \in Nat /\ Runs = 1 .. Len(run)
  BY DEF RunRows, Runs
<1>2. Cardinality(Runs) = Len(run)
  <2> DEFINE n == Len(run)
  <2>1. n \in Nat
    BY <1>1
  <2> HIDE DEF n
  <2>2. Cardinality(1 .. n) = IF 1 > n THEN 0 ELSE n - 1 + 1
    BY <2>1, FS_Interval
  <2>3. Cardinality(1 .. n) = n
    BY <2>1, <2>2
  <2> QED
    BY <1>1, <2>3 DEF n
<1>3. \A r \in 1 .. Len(run) : run[r] \in RunRow /\ timeline[r] \in SUBSET EventRow
  BY DEF RunRows
<1>4. \A r \in 1 .. Len(run) : Cardinality(timeline[r]) \in Nat
  BY FS_CardinalityType DEF RunRows, Tells
<1> QED
  BY <1>1, <1>2, <1>3, <1>4

LEMMA CallStillKnows ==
    ASSUME RunRows, RunRows', RowsGrow, NEW call, CallKnows(run, timeline, call)
    PROVE  CallKnows(run', timeline', call)
<1>1. Len(run) \in Nat /\ Len(run') \in Nat /\ Len(run) <= Len(run')
  BY DEF RunRows, RowsGrow
<1>2. \A r \in 1 .. Len(run) :
          /\ run'[r].attempt = run[r].attempt
          /\ 1 .. (Cardinality(timeline[r]) + 1) \subseteq 1 .. (Cardinality(timeline'[r]) + 1)
  <2>1. \A r \in 1 .. Len(run) : Cardinality(timeline[r]) \in Nat /\ Cardinality(timeline'[r]) \in Nat
    BY <1>1, FS_CardinalityType DEF RunRows, Tells
  <2> QED
    BY <2>1 DEF RowsGrow
<1>3. 1 .. Len(run) \subseteq 1 .. Len(run') /\ 1 .. (Len(run) + 1) \subseteq 1 .. (Len(run') + 1)
  BY <1>1
<1> QED
  BY <1>2, <1>3 DEF CallKnows

\* One call moves, and the rows may grow.
LEMMA CallMoves ==
    ASSUME RunInv, RunRows', RowsGrow, NEW c \in RunCalls, NEW call,
           runCall' = [runCall EXCEPT ![c] = call], CallKnows(run', timeline', call)
    PROVE  RunCallsKnow'
<1>1. \A d \in RunCalls : CallKnows(run', timeline', runCall[d])
  BY CallStillKnows DEF RunInv, RunCallsKnow
<1>2. \A d \in RunCalls : CallKnows(run', timeline', runCall'[d])
  BY <1>1 DEF RunInv, RunCallsKnow
<1> QED
  BY <1>2 DEF RunInv, RunCallsKnow

\* It does not begin a retry: the bound stands.
LEMMA BoundStands ==
    ASSUME RunInv, NEW c \in RunCalls, NEW call, runCall' = [runCall EXCEPT ![c] = call],
           call.phase # "idle" /\ call.op = "retry" => Retrying(c), Len(run') = Len(run)
    PROVE  RunsBounded'
<1> DEFINE retries == {d \in RunCalls : Retrying(d)}
<1>1. retries' \subseteq retries
  BY DEF RunInv, RunCallsKnow, Retrying
<1>2. IsFiniteSet(retries)
  BY RunConstants, FS_Subset
<1>3. Cardinality(retries') <= Cardinality(retries)
  BY <1>1, <1>2, FS_Subset
<1>4. Cardinality(retries) \in Nat /\ Cardinality(retries') \in Nat
  BY <1>1, <1>2, FS_Subset, FS_CardinalityType
<1>5. Len(run) \in Nat
  BY RowTypes DEF RunInv
<1>6. Len(run) + Cardinality(retries) <= MaxRuns
  BY DEF RunInv, RunsBounded
<1> HIDE DEF retries
<1>7. Len(run') + Cardinality(retries') <= MaxRuns
  BY <1>3, <1>4, <1>5, <1>6, RunConstants
<1> QED
  BY <1>7 DEF RunsBounded, retries

\* The rows stay, and one call moves.
LEMMA OnlyCall ==
    ASSUME RunInv, NEW c \in RunCalls, NEW call, runCall' = [runCall EXCEPT ![c] = call],
           UNCHANGED <<run, timeline>>, lifecycle' \in {"active", "closed"},
           CallKnows(run, timeline, call), RunsBounded'
    PROVE  RunInv'
<1>1. RunRows' /\ RetriesAreLinked'
  BY DEF RunInv, RunRows, RetriesAreLinked, Runs
<1>2. RowsGrow
  BY RowTypes DEF RunInv, RowsGrow
<1>3. RunCallsKnow'
  BY <1>1, <1>2, CallMoves
<1> QED
  BY <1>1, <1>3 DEF RunInv

LEMMA BeginTransitionKeeps ==
    ASSUME RunInv, NEW c \in RunCalls, NEW r \in Runs, NEW next \in {"running"} \cup Outcomes,
           BeginTransition(c, r, next)
    PROVE  RunInv'
<1> DEFINE call == [phase |-> "sequence", op |-> "transition", run |-> r,
                    next |-> next, state |-> run[r].state, version |-> run[r].version]
<1>1. /\ runCall' = [runCall EXCEPT ![c] = call] /\ UNCHANGED <<lifecycle, run, timeline>>
      /\ CanBecome(run[r].state, next)
  BY DEF BeginTransition
<1>2. r \in 1 .. Len(run)
  BY RowTypes DEF RunInv
<1>3. CallKnows(run, timeline, call)
  BY <1>1, <1>2 DEF CallKnows
<1>4. call.op # "retry"
  OBVIOUS
<1> HIDE DEF call
<1>5. RunsBounded'
  BY <1>1, <1>4, BoundStands
<1> QED
  BY <1>1, <1>3, <1>5, OnlyCall DEF RunInv, RunRows

LEMMA BeginNoteKeeps ==
    ASSUME RunInv, NEW c \in RunCalls, NEW r \in Runs, BeginNote(c, r)
    PROVE  RunInv'
<1> DEFINE call == [phase |-> "sequence", op |-> "note", run |-> r]
<1>1. runCall' = [runCall EXCEPT ![c] = call] /\ UNCHANGED <<lifecycle, run, timeline>>
  BY DEF BeginNote
<1>2. r \in 1 .. Len(run)
  BY RowTypes DEF RunInv
<1>3. CallKnows(run, timeline, call) /\ call.op # "retry"
  BY <1>2 DEF CallKnows
<1> HIDE DEF call
<1>4. RunsBounded'
  BY <1>1, <1>3, BoundStands
<1> QED
  BY <1>1, <1>3, <1>4, OnlyCall DEF RunInv, RunRows

LEMMA BeginRetryKeeps ==
    ASSUME RunInv, NEW c \in RunCalls, NEW r \in Runs, BeginRetry(c, r)
    PROVE  RunInv'
<1> DEFINE call == [phase |-> "attempt", op |-> "retry", run |-> r,
                    state |-> run[r].state, version |-> run[r].version]
           retries == {d \in RunCalls : Retrying(d)}
<1>1. runCall' = [runCall EXCEPT ![c] = call] /\ UNCHANGED <<lifecycle, run, timeline>>
  BY DEF BeginRetry
<1>2. r \in 1 .. Len(run) /\ Cardinality(Runs) = Len(run) /\ Len(run) \in Nat
  BY RowTypes DEF RunInv
<1>3. CallKnows(run, timeline, call)
  BY <1>2 DEF CallKnows, BeginRetry
<1>4. RunsBounded'
  <2>1. retries' \subseteq retries \cup {c}
    BY <1>1 DEF RunInv, RunCallsKnow, Retrying
  <2>2. IsFiniteSet(retries)
    BY RunConstants, FS_Subset
  <2>3. IsFiniteSet(retries \cup {c}) /\ Cardinality(retries \cup {c}) <= Cardinality(retries) + 1
        /\ Cardinality(retries) \in Nat
    <3>1. Cardinality(retries) \in Nat
      BY <2>2, FS_CardinalityType
    <3> HIDE DEF retries, call
    <3>2. /\ IsFiniteSet(retries \cup {c})
          /\ Cardinality(retries \cup {c}) = Cardinality(retries)
             \/ Cardinality(retries \cup {c}) = Cardinality(retries) + 1
      BY <2>2, FS_AddElement
    <3> QED
      BY <3>1, <3>2
  <2>4. Cardinality(retries') <= Cardinality(retries \cup {c}) /\ Cardinality(retries') \in Nat
        /\ Cardinality(retries \cup {c}) \in Nat
    BY <2>1, <2>3, FS_Subset, FS_CardinalityType
  <2>5. Len(run) + Cardinality(retries) < MaxRuns
    BY <1>2 DEF BeginRetry
  <2> HIDE DEF retries, call
  <2>6. Len(run') + Cardinality(retries') <= MaxRuns
    BY <1>1, <1>2, <2>3, <2>4, <2>5, RunConstants
  <2> QED
    BY <2>6 DEF RunsBounded, retries
<1> HIDE DEF call
<1> QED
  BY <1>1, <1>3, <1>4, OnlyCall DEF RunInv, RunRows

LEMMA BeginCloseKeeps ==
    ASSUME RunInv, NEW c \in RunCalls, BeginClose(c)
    PROVE  RunInv'
<1> DEFINE call == [phase |-> "write", op |-> "close"]
<1>1. runCall' = [runCall EXCEPT ![c] = call] /\ UNCHANGED <<lifecycle, run, timeline>>
  BY DEF BeginClose
<1>2. CallKnows(run, timeline, call) /\ call.op # "retry"
  BY DEF CallKnows
<1> HIDE DEF call
<1>3. RunsBounded'
  BY <1>1, <1>2, BoundStands
<1> QED
  BY <1>1, <1>2, <1>3, OnlyCall DEF RunInv, RunRows

\* A call ends, and nothing else happens.
LEMMA FinishKeeps ==
    ASSUME RunInv, NEW c \in RunCalls, Finish(c), UNCHANGED <<run, timeline>>,
           lifecycle' \in {"active", "closed"}
    PROVE  RunInv'
<1>1. runCall' = [runCall EXCEPT ![c] = Idle]
  BY DEF Finish
<1>2. CallKnows(run, timeline, Idle)
  BY DEF CallKnows
<1>3. RunsBounded'
  BY <1>1, BoundStands DEF Idle
<1> QED
  BY <1>1, <1>2, <1>3, OnlyCall

LEMMA ReadSequenceKeeps ==
    ASSUME RunInv, NEW c \in RunCalls, ReadSequence(c)
    PROVE  RunInv'
<1> DEFINE old == runCall[c]
           call == With(old, [phase |-> "write", seq |-> NextSequence(old.run)])
<1>1. runCall' = [runCall EXCEPT ![c] = call] /\ UNCHANGED <<lifecycle, run, timeline>>
      /\ old.phase = "sequence"
  BY DEF ReadSequence
<1>2. CallKnows(run, timeline, old)
  BY DEF RunInv, RunCallsKnow
<1>3. old.op \in {"transition", "note"} /\ old.run \in 1 .. Len(run)
  BY <1>1, <1>2 DEF CallKnows, Idle
<1>4. NextSequence(old.run) \in 1 .. (Cardinality(timeline[old.run]) + 1)
  <2>1. Tells(timeline[old.run], run[old.run].state, run[old.run].version)
        /\ run[old.run].version \in Nat \ {0} /\ Cardinality(timeline[old.run]) \in Nat
    <3>1. run[old.run] \in RunRow /\ Cardinality(timeline[old.run]) \in Nat
      BY <1>3, RowTypes DEF RunInv
    <3>2. run[old.run].version \in 1 .. 4
      BY <3>1 DEF RunRow
    <3>3. Tells(timeline[old.run], run[old.run].state, run[old.run].version)
      BY <1>3 DEF RunInv, RunRows
    <3> QED
      BY <3>1, <3>2, <3>3
  <2>2. NextSequence(old.run) = Cardinality(timeline[old.run]) + 1
    BY <2>1, NextSequenceFollows
  <2> QED
    BY <2>1, <2>2
<1>5. /\ call.phase = "write" /\ call.op = old.op /\ call.run = old.run /\ call.seq = NextSequence(old.run)
      /\ old.op = "transition" => call.next = old.next /\ call.state = old.state
      /\ DOMAIN old \subseteq DOMAIN call
  BY <1>1, <1>2 DEF CallKnows, With, Idle
<1>6. CallKnows(run, timeline, call)
  <2> HIDE DEF call
  <2> QED
    BY <1>1, <1>2, <1>3, <1>4, <1>5 DEF CallKnows, Idle
<1> HIDE DEF call
<1>7. RunsBounded'
  BY <1>1, <1>3, <1>5, BoundStands
<1> QED
  BY <1>1, <1>6, <1>7, OnlyCall DEF RunInv, RunRows

LEMMA ReadAttemptKeeps ==
    ASSUME RunInv, NEW c \in RunCalls, ReadAttempt(c)
    PROVE  RunInv'
<1> DEFINE old == runCall[c]
           r == old.run
           call == With(old, [phase |-> "write", attempt |-> 1 + MaxAttempt(r)])
           attempts == {run[x].attempt : x \in {y \in Runs : y = r \/ run[y].parent = r}}
<1>1. runCall' = [runCall EXCEPT ![c] = call] /\ UNCHANGED <<lifecycle, run, timeline>>
      /\ old.phase = "attempt"
  BY DEF ReadAttempt
<1>2. CallKnows(run, timeline, old)
  BY DEF RunInv, RunCallsKnow
<1>3. old.op = "retry" /\ r \in 1 .. Len(run)
  BY <1>1, <1>2 DEF CallKnows, Idle
<1>4. 1 + MaxAttempt(r) \in 1 .. (Len(run) + 1) /\ 1 + MaxAttempt(r) > run[r].attempt
  <2>1. Len(run) \in Nat /\ Runs = 1 .. Len(run)
    BY RowTypes DEF RunInv
  <2>2. \A x \in Runs : run[x].attempt \in 1 .. Len(run)
    BY <2>1 DEF RunInv, RunRows, RunFits
  <2>3. attempts \in SUBSET (0 .. Len(run)) /\ run[r].attempt \in attempts
    BY <1>3, <2>1, <2>2
  <2>4. MaxAttempt(r) = Max(attempts)
    BY DEF MaxAttempt
  <2> HIDE DEF attempts
  <2>5. Max(attempts) \in 0 .. Len(run) /\ Max(attempts) >= run[r].attempt
    BY <2>1, <2>3, MaxIsGreatest
  <2>6. run[r].attempt \in Nat
    BY <1>3, <2>1, <2>2
  <2> QED
    BY <2>1, <2>4, <2>5, <2>6
<1>5. /\ call.phase = "write" /\ call.op = "retry" /\ call.run = r /\ call.attempt = 1 + MaxAttempt(r)
      /\ call.state = old.state /\ DOMAIN old \subseteq DOMAIN call
  BY <1>1, <1>2, <1>3 DEF CallKnows, With, Idle
<1>6. CallKnows(run, timeline, call)
  <2> HIDE DEF call
  <2> QED
    BY <1>1, <1>2, <1>3, <1>4, <1>5 DEF CallKnows, Idle
<1>7. Retrying(c)
  BY <1>1, <1>3 DEF Retrying
<1> HIDE DEF call
<1>8. RunsBounded'
  BY <1>1, <1>7, BoundStands
<1> QED
  BY <1>1, <1>6, <1>8, OnlyCall DEF RunInv, RunRows

-----------------------------------------------------------------------------
(* Batches.                                                                *)

\* What a call has read of the sequence is free only if it is the next one.
LEMMA FreeIsNext ==
    ASSUME RunInv, NEW r \in 1 .. Len(run), NEW seq \in 1 .. (Cardinality(timeline[r]) + 1), Free(r, seq)
    PROVE  seq = Cardinality(timeline[r]) + 1
<1>1. {e.seq : e \in timeline[r]} = 1 .. Cardinality(timeline[r])
  BY DEF RunInv, RunRows, Tells
<1>2. seq \notin 1 .. Cardinality(timeline[r])
  BY <1>1 DEF Free
<1>3. Cardinality(timeline[r]) \in Nat
  BY RowTypes DEF RunInv
<1> QED
  BY <1>2, <1>3

\* One row and its timeline move on together; parent and attempt of the row
\* stay, and so does a final state.
LEMMA RowMoves ==
    ASSUME RunInv, NEW c \in RunCalls, NEW r \in 1 .. Len(run), NEW row \in RunRow, NEW told,
           UNCHANGED lifecycle, Finish(c), run' = [run EXCEPT ![r] = row],
           timeline' = [timeline EXCEPT ![r] = told], Tells(told, row.state, row.version),
           RunFits(r, row), row.attempt = run[r].attempt, row.parent = run[r].parent,
           run[r].state \in Retryable => row.state = run[r].state,
           Cardinality(timeline[r]) <= Cardinality(told)
    PROVE  RunInv'
<1>1. told \in SUBSET EventRow
  BY DEF Tells
<1>2. /\ run' \in Seq(RunRow) /\ timeline' \in Seq(SUBSET EventRow)
      /\ Len(run') = Len(run) /\ Len(timeline') = Len(timeline)
  BY <1>1 DEF RunInv, RunRows
<1>3. Len(run) \in Nat /\ Runs = 1 .. Len(run) /\ Runs' = 1 .. Len(run)
  BY <1>2 DEF RunInv, RunRows, Runs
<1>4. \A x \in 1 .. Len(run) : /\ run'[x] = IF x = r THEN row ELSE run[x]
                               /\ timeline'[x] = IF x = r THEN told ELSE timeline[x]
  BY DEF RunInv, RunRows
<1>5. RunRows'
  <2>1. \A x \in 1 .. Len(run) : RunFits(x, run'[x]) /\ Tells(timeline'[x], run'[x].state, run'[x].version)
    BY <1>4 DEF RunInv, RunRows
  <2> QED
    BY <1>2, <2>1 DEF RunInv, RunRows
<1>6. RetriesAreLinked'
  <2>1. \A x \in Runs : /\ run'[x].parent = run[x].parent /\ run'[x].attempt = run[x].attempt
                        /\ run[x].state \in Retryable => run'[x].state = run[x].state
    BY <1>3, <1>4
  <2>2. \A x \in Runs : run[x].parent # 0 => run[x].parent \in Runs
    <3> SUFFICES ASSUME NEW x \in 1 .. Len(run), run[x].parent # 0 PROVE run[x].parent \in 1 .. Len(run)
      BY <1>3
    <3>1. run[x].parent \in 0 .. (x - 1)
      BY DEF RunInv, RunRows, RunFits
    <3> QED
      BY <1>3, <3>1
  <2> QED
    BY <1>3, <2>1, <2>2 DEF RunInv, RetriesAreLinked
<1>7. RowsGrow
  BY <1>2, <1>3, <1>4, RowTypes DEF RowsGrow, RunInv
<1>8. CallKnows(run', timeline', Idle)
  BY DEF CallKnows
<1>9. RunCallsKnow'
  BY <1>5, <1>7, <1>8, CallMoves DEF Finish
<1>10. RunsBounded'
  BY <1>2, BoundStands DEF Finish, Idle
<1> QED
  BY <1>5, <1>6, <1>9, <1>10 DEF RunInv

\* A state that a run goes to, and the version it has there.
Moved(old, next, version) == [old EXCEPT !.state = next, !.version = version]
MayMove(r, old, next, version) ==
    /\ old \in RunRow /\ RunFits(r, old) /\ next \in RunStates \ {"queued"}
    /\ version \in 1 .. 4 /\ (next = "running" => version = 3)
HasMoved(r, old, next, version, row) ==
    /\ row \in RunRow /\ RunFits(r, row) /\ row.state = next /\ row.version = version
    /\ row.attempt = old.attempt /\ row.parent = old.parent
LEMMA RowChanges ==
    ASSUME NEW r, NEW old, NEW next, NEW version, MayMove(r, old, next, version)
    PROVE  HasMoved(r, old, next, version, Moved(old, next, version))
<1> DEFINE row == Moved(old, next, version)
<1>1. row \in RunRow /\ row.state = next /\ row.version = version
      /\ row.attempt = old.attempt /\ row.parent = old.parent
  BY DEF RunRow, Moved, MayMove
<1> HIDE DEF row
<1>2. RunFits(r, row)
  BY <1>1 DEF RunFits, MayMove
<1> QED
  BY <1>1, <1>2 DEF row, HasMoved

LEMMA TransitionKeeps ==
    ASSUME RunInv, NEW c \in RunCalls, Transition(c)
    PROVE  RunInv'
<1> DEFINE call == runCall[c]
           r == call.run
           seq == call.seq
           v == call.version
           next == call.next
           n == Cardinality(timeline[r])
<1>1. CallKnows(run, timeline, call) /\ call.phase = "write" /\ call.op = "transition"
  BY DEF RunInv, RunCallsKnow, Transition
<1>2. /\ r \in 1 .. Len(run) /\ next \in {"running"} \cup Outcomes
      /\ CanBecome(call.state, next) /\ seq \in 1 .. (n + 1)
  BY <1>1 DEF CallKnows, Idle
<1>3. Stands(c) /\ Free(r, seq)
  BY DEF Transition
<1>4. run[r] \in RunRow /\ n \in Nat /\ RunFits(r, run[r]) /\ Tells(timeline[r], run[r].state, run[r].version)
  BY <1>2, RowTypes DEF RunInv, RunRows
<1>5. run[r].state = call.state /\ run[r].version = v
  BY <1>3 DEF Stands
<1>6. seq = n + 1
  BY <1>2, <1>3, FreeIsNext DEF RunInv
<1>7. v \in 1 .. 4 /\ (next = "running" => v = 1) /\ (next # "running" => v \in {1, 3})
  BY <1>2, <1>4, <1>5 DEF CanBecome, RunFits, RunRow, Outcomes
<1>8. Finish(c) /\ UNCHANGED lifecycle
  BY DEF Transition
<1>9. CASE next = "running"
  <2> DEFINE row == [run[r] EXCEPT !.state = next, !.version = v + 2]
             first == Event(seq, "dispatching", v + 1)
             second == Event(seq + 1, next, v + 2)
             told == timeline[r] \cup {first, second}
  <2>1. run' = [run EXCEPT ![r] = row] /\ timeline' = [timeline EXCEPT ![r] = told]
    BY <1>9 DEF Transition
  <2>2. /\ first \in EventRow /\ first.seq = n + 1 /\ first.kind = "dispatching" /\ first.version = v + 1
        /\ second \in EventRow /\ second.seq = n + 2 /\ second.kind = next /\ second.version = v + 1 + 1
    BY <1>4, <1>6, <1>7, <1>9 DEF Event, EventRow, EventKinds, RunStates
  <2>3. row \in RunRow /\ RunFits(r, row) /\ row.state = next /\ row.version = v + 1 + 1
        /\ row.attempt = run[r].attempt /\ row.parent = run[r].parent
    <3>1. v + 2 \in 1 .. 4 /\ v + 2 = 3 /\ v + 2 = v + 1 + 1
      BY <1>7, <1>9
    <3>2. MayMove(r, run[r], next, v + 2)
      BY <1>4, <1>9, <3>1 DEF MayMove, RunStates
    <3>3. HasMoved(r, run[r], next, v + 2, row)
      BY <3>2, RowChanges DEF Moved
    <3> QED
      BY <3>1, <3>3 DEF HasMoved
  <2> HIDE DEF row, first, second
  <2>4. Tells(timeline[r] \cup {first}, first.kind, v + 1) /\ Cardinality(timeline[r] \cup {first}) = n + 1
    <3>1. Tells(timeline[r], run[r].state, v) /\ v \in Nat
      BY <1>4, <1>5, <1>7
    <3> HIDE DEF v, r
    <3>2. first.kind # "note"
      BY <2>2
    <3> QED
      BY <2>2, <3>1, <3>2, StateTells, EventIsNew
  <2>5. /\ Tells((timeline[r] \cup {first}) \cup {second}, second.kind, v + 1 + 1)
        /\ Cardinality((timeline[r] \cup {first}) \cup {second}) = n + 1 + 1
    <3>1. v + 1 \in Nat /\ second.seq = Cardinality(timeline[r] \cup {first}) + 1 /\ second.kind # "note"
      BY <1>4, <1>7, <1>9, <2>2, <2>4
    <3> QED
      BY <2>2, <2>4, <3>1, StateTells, EventIsNew
  <2>6. told = (timeline[r] \cup {first}) \cup {second}
    OBVIOUS
  <2> HIDE DEF told, n
  <2>7. Tells(told, row.state, row.version) /\ n <= Cardinality(told)
    BY <1>4, <2>2, <2>3, <2>5, <2>6
  <2>8. run[r].state \notin Retryable
    BY <1>2, <1>5 DEF CanBecome, Retryable
  <2> QED
    BY <1>2, <1>8, <2>1, <2>3, <2>7, <2>8, RowMoves DEF n
<1>10. CASE next # "running"
  <2> DEFINE row == [run[r] EXCEPT !.state = next, !.version = v + 1]
             e == Event(seq, next, v + 1)
             told == timeline[r] \cup {e}
  <2>1. run' = [run EXCEPT ![r] = row] /\ timeline' = [timeline EXCEPT ![r] = told]
    BY <1>10 DEF Transition
  <2>2. e \in EventRow /\ e.seq = n + 1 /\ e.kind = next /\ e.version = v + 1 /\ next # "note"
    BY <1>2, <1>4, <1>6, <1>7, <1>10 DEF Event, EventRow, EventKinds, RunStates, Outcomes
  <2>3. row \in RunRow /\ RunFits(r, row) /\ row.state = next /\ row.version = v + 1
        /\ row.attempt = run[r].attempt /\ row.parent = run[r].parent
    <3>1. MayMove(r, run[r], next, v + 1)
      BY <1>2, <1>4, <1>7, <1>10 DEF MayMove, RunStates, Outcomes
    <3>2. HasMoved(r, run[r], next, v + 1, row)
      BY <3>1, RowChanges DEF Moved
    <3> QED
      BY <3>2 DEF HasMoved
  <2> HIDE DEF row, e
  <2>4. Tells(timeline[r] \cup {e}, e.kind, v + 1) /\ Cardinality(timeline[r] \cup {e}) = n + 1
    <3>1. Tells(timeline[r], run[r].state, v) /\ v \in Nat
      BY <1>4, <1>5, <1>7
    <3> HIDE DEF v, r
    <3>2. e.kind # "note"
      BY <2>2
    <3> QED
      BY <2>2, <3>1, <3>2, StateTells, EventIsNew
  <2> HIDE DEF n
  <2>5. Tells(told, row.state, row.version) /\ n <= Cardinality(told)
    BY <1>4, <2>2, <2>3, <2>4
  <2>6. run[r].state \notin Retryable
    BY <1>2, <1>5 DEF CanBecome, Retryable
  <2> HIDE DEF told
  <2> QED
    BY <1>2, <1>8, <2>1, <2>3, <2>5, <2>6, RowMoves DEF n
<1> QED
  BY <1>9, <1>10

LEMMA NoteKeeps ==
    ASSUME RunInv, NEW c \in RunCalls, Note(c)
    PROVE  RunInv'
<1> DEFINE call == runCall[c]
           r == call.run
           n == Cardinality(timeline[r])
           e == Event(call.seq, "note", 0)
           told == timeline[r] \cup {e}
<1>1. CallKnows(run, timeline, call) /\ call.phase = "write" /\ call.op = "note"
  BY DEF RunInv, RunCallsKnow, Note
<1>2. r \in 1 .. Len(run) /\ call.seq \in 1 .. (n + 1) /\ Free(r, call.seq)
  BY <1>1 DEF CallKnows, Idle, Note
<1>3. run[r] \in RunRow /\ n \in Nat /\ RunFits(r, run[r]) /\ Tells(timeline[r], run[r].state, run[r].version)
  BY <1>2, RowTypes DEF RunInv, RunRows
<1>4. call.seq = n + 1
  BY <1>2, FreeIsNext DEF RunInv
<1>5. e \in EventRow /\ e.seq = n + 1 /\ e.kind = "note"
  BY <1>3, <1>4 DEF Event, EventRow, EventKinds
<1>6. timeline' = [timeline EXCEPT ![r] = told] /\ UNCHANGED <<lifecycle, run>> /\ Finish(c)
  BY DEF Note
<1>7. run' = [run EXCEPT ![r] = run[r]]
  BY <1>2, <1>6 DEF RunInv, RunRows
<1> HIDE DEF e
<1>8. Tells(told, run[r].state, run[r].version) /\ Cardinality(told) = n + 1
  BY <1>3, <1>5, NoteTells, EventIsNew
<1> HIDE DEF told, n
<1>9. n <= Cardinality(told)
  BY <1>3, <1>8
<1> QED
  BY <1>2, <1>3, <1>6, <1>7, <1>8, <1>9, RowMoves DEF n

LEMMA FirstEventTells == Tells({Event(1, "queued", 1)}, "queued", 1)
<1> DEFINE e == Event(1, "queued", 1)
           told == {e}
<1>1. e \in EventRow /\ e.seq = 1 /\ e.kind = "queued" /\ e.version = 1
  BY DEF Event, EventRow, EventKinds, RunStates
<1> HIDE DEF e
<1>2. StateEvents(told) = told
  BY <1>1 DEF StateEvents
<1>3. IsFiniteSet(told) /\ Cardinality(told) = 1
  BY FS_Singleton
<1>4. {f.seq : f \in told} = 1 .. 1 /\ {f.version : f \in told} = 1 .. 1
  BY <1>1
<1>5. \A f, g \in told : f.seq < g.seq => f.version < g.version
  BY <1>1
<1>6. \E f \in told : f.version = 1 /\ f.kind = "queued"
  BY <1>1
<1>7. Tells(told, "queued", 1)
  <2>1. told \subseteq EventRow
    BY <1>1
  <2> HIDE DEF told
  <2> QED
    BY <1>2, <1>3, <1>4, <1>5, <1>6, <2>1 DEF Tells
<1> QED
  BY <1>7 DEF e

LEMMA RetryTells ==
    ASSUME NEW more \in {{}, {Event(2, "note", 0)}}
    PROVE  Tells({Event(1, "queued", 1)} \cup more, "queued", 1)
<1> DEFINE first == {Event(1, "queued", 1)}
           e == Event(2, "note", 0)
<1>1. e \in EventRow /\ e.seq = 1 + 1 /\ e.kind = "note"
  BY DEF Event, EventRow, EventKinds
<1>2. Tells(first, "queued", 1) /\ Cardinality(first) = 1
  BY FirstEventTells, FS_Singleton
<1>3. first \cup {} = first /\ more \in {{}, {e}}
  OBVIOUS
<1> HIDE DEF first, e
<1>4. Tells(first \cup {e}, "queued", 1)
  BY <1>1, <1>2, NoteTells
<1>5. Tells(first \cup more, "queued", 1)
  BY <1>2, <1>3, <1>4
<1> QED
  BY <1>5 DEF first

LEMMA RetryKeeps ==
    ASSUME RunInv, NEW c \in RunCalls, Retry(c)
    PROVE  RunInv'
<1>0. PICK more \in {{}, {Event(2, "note", 0)}} :
          timeline' = Append(timeline, {Event(1, "queued", 1)} \cup more)
  BY DEF Retry
<1> DEFINE call == runCall[c]
           r == call.run
           n == Len(run)
           row == [state |-> "queued", version |-> 1, parent |-> r, attempt |-> call.attempt]
           told == {Event(1, "queued", 1)} \cup more
           retries == {d \in RunCalls : Retrying(d)}
<1>1. /\ CallKnows(run, timeline, call) /\ call.phase = "write" /\ call.op = "retry"
      /\ Stands(c) /\ AttemptAbsent(r, call.attempt)
      /\ run' = Append(run, row) /\ timeline' = Append(timeline, told)
      /\ Finish(c) /\ UNCHANGED lifecycle
  BY <1>0 DEF RunInv, RunCallsKnow, Retry
<1>2. /\ r \in 1 .. n /\ call.state \in Retryable
      /\ call.attempt \in 1 .. (n + 1) /\ call.attempt > run[r].attempt
  BY <1>1 DEF CallKnows, Idle
<1>3. run[r].state = call.state
  BY <1>1 DEF Stands
<1>4. n \in Nat /\ Runs = 1 .. n /\ Len(timeline) = n
  BY RowTypes DEF RunInv, RunRows
<1>5. row \in RunRow /\ RunFits(n + 1, row) /\ row.parent = r /\ row.attempt = call.attempt
      /\ row.state = "queued" /\ row.version = 1
  BY <1>2, <1>4 DEF RunRow, RunFits, RunStates
<1>6. Tells(told, row.state, row.version) /\ told \in SUBSET EventRow
  BY <1>5, RetryTells DEF Tells
<1> HIDE DEF row, told, r
<1>7. /\ run' \in Seq(RunRow) /\ timeline' \in Seq(SUBSET EventRow)
      /\ Len(run') = n + 1 /\ Len(timeline') = n + 1
  BY <1>1, <1>4, <1>5, <1>6 DEF RunInv, RunRows
<1>8. /\ \A x \in 1 .. n : run'[x] = run[x] /\ timeline'[x] = timeline[x]
      /\ run'[n + 1] = row /\ timeline'[n + 1] = told
  BY <1>1, <1>4, <1>5, <1>6 DEF RunInv, RunRows
<1>9. RunRows'
  <2>1. \A x \in 1 .. (n + 1) : RunFits(x, run'[x]) /\ Tells(timeline'[x], run'[x].state, run'[x].version)
    BY <1>4, <1>5, <1>6, <1>8 DEF RunInv, RunRows
  <2> QED
    BY <1>1, <1>7, <2>1 DEF RunInv, RunRows
<1>10. RetriesAreLinked'
  <2>1. Runs' = 1 .. (n + 1)
    BY <1>7 DEF Runs
  <2>2. \A x \in 1 .. n : run[x].parent \in 0 .. n
    <3> SUFFICES ASSUME NEW x \in 1 .. n PROVE run[x].parent \in 0 .. n
      OBVIOUS
    <3>1. run[x].parent \in 0 .. (x - 1)
      BY DEF RunInv, RunRows, RunFits
    <3> QED
      BY <1>4, <3>1
  <2>3. \A x \in 1 .. n : run[x].parent = r => run[x].attempt # call.attempt
    BY <1>1, <1>4 DEF AttemptAbsent
  <2>4. ASSUME NEW x \in 1 .. (n + 1), run'[x].parent # 0
        PROVE  /\ run'[run'[x].parent].state \in Retryable
               /\ run'[x].attempt > run'[run'[x].parent].attempt
               /\ \A y \in 1 .. (n + 1) \ {x} :
                      run'[y].parent = run'[x].parent => run'[y].attempt # run'[x].attempt
    <3>1. CASE x = n + 1
      BY <1>2, <1>3, <1>4, <1>5, <1>8, <2>3, <3>1
    <3>2. CASE x \in 1 .. n
      <4>1. run'[x] = run[x] /\ run[x].parent \in 1 .. n
        BY <1>4, <1>8, <2>2, <2>4, <3>2
      <4>2. run'[run[x].parent] = run[run[x].parent]
        BY <1>8, <4>1
      <4>3. /\ run[run[x].parent].state \in Retryable
            /\ run[x].attempt > run[run[x].parent].attempt
            /\ \A y \in 1 .. n : y # x /\ run[y].parent = run[x].parent => run[y].attempt # run[x].attempt
        BY <1>4, <3>2, <4>1 DEF RunInv, RetriesAreLinked
      <4>4. \A y \in 1 .. (n + 1) : y # x /\ run'[y].parent = run'[x].parent => run'[y].attempt # run'[x].attempt
        <5>1. ASSUME NEW y \in 1 .. n, y # x, run[y].parent = run[x].parent
              PROVE  run[y].attempt # run[x].attempt
          BY <4>3, <5>1
        <5>2. run[x].parent = r => run[x].attempt # call.attempt
          BY <2>3, <3>2
        <5> QED
          BY <1>4, <1>5, <1>8, <3>2, <5>1, <5>2
      <4> QED
        BY <4>1, <4>2, <4>3, <4>4
    <3> QED
      BY <1>4, <2>4, <3>1, <3>2
  <2> QED
    BY <2>1, <2>4 DEF RetriesAreLinked
<1>11. RowsGrow
  BY <1>4, <1>7, <1>8, RowTypes DEF RowsGrow, RunInv
<1>12. RunCallsKnow'
  <2>1. CallKnows(run', timeline', Idle)
    BY DEF CallKnows
  <2> QED
    BY <1>1, <1>9, <1>11, <2>1, CallMoves DEF Finish
<1>13. RunsBounded'
  <2>1. c \in retries /\ retries' \subseteq retries \ {c}
    BY <1>1 DEF RunInv, RunCallsKnow, Retrying, Finish, Idle
  <2>2. IsFiniteSet(retries)
    BY RunConstants, FS_Subset
  <2>3. Cardinality(retries) \in Nat
    BY <2>2, FS_CardinalityType
  <2>4. IsFiniteSet(retries \ {c}) /\ Cardinality(retries \ {c}) = Cardinality(retries) - 1
    BY <2>1, <2>2, FS_RemoveElement
  <2>5. Cardinality(retries') <= Cardinality(retries \ {c}) /\ Cardinality(retries') \in Nat
    BY <2>1, <2>4, FS_Subset, FS_CardinalityType
  <2>6. n + Cardinality(retries) <= MaxRuns
    BY DEF RunInv, RunsBounded
  <2> HIDE DEF retries, n
  <2>7. Len(run') + Cardinality(retries') <= MaxRuns
    BY <1>4, <1>7, <2>3, <2>4, <2>5, <2>6, RunConstants
  <2> QED
    BY <2>7 DEF RunsBounded, retries
<1> QED
  BY <1>9, <1>10, <1>12, <1>13 DEF RunInv

-----------------------------------------------------------------------------
\* The session with its first run.
LEMMA RunsInitially == RunInit => RunInv
<1> SUFFICES ASSUME RunInit PROVE RunInv
  OBVIOUS
<1> DEFINE row == [state |-> "queued", version |-> 1, parent |-> 0, attempt |-> 1]
           told == {Event(1, "queued", 1)}
<1>1. run = <<row>> /\ timeline = <<told>> /\ lifecycle = "active"
  BY DEF RunInit
<1>2. row \in RunRow /\ RunFits(1, row) /\ row.state = "queued" /\ row.version = 1 /\ row.parent = 0
  BY DEF RunRow, RunFits, RunStates
<1>3. Tells(told, row.state, row.version) /\ told \in SUBSET EventRow
  BY <1>2, FirstEventTells DEF Tells
<1> HIDE DEF row, told
<1>4. RunRows
  BY <1>1, <1>2, <1>3 DEF RunRows
<1>5. RetriesAreLinked
  BY <1>1, <1>2 DEF RetriesAreLinked, Runs
<1>6. RunCallsKnow
  BY DEF RunInit, RunCallsKnow, CallKnows
<1>7. RunsBounded
  <2>1. {c \in RunCalls : Retrying(c)} = {}
    BY DEF RunInit, Retrying, Idle
  <2>2. Len(run) = 1
    BY <1>1
  <2> QED
    BY <2>1, <2>2, FS_EmptySet, RunConstants DEF RunsBounded
<1> QED
  BY <1>4, <1>5, <1>6, <1>7 DEF RunInv

LEMMA RunStep ==
    ASSUME RunInv, RunNext
    PROVE  RunInv'
<1>1. PICK c \in RunCalls :
        \/ \E r \in Runs :
               \/ \E next \in {"running"} \cup Outcomes : BeginTransition(c, r, next)
               \/ BeginNote(c, r) \/ BeginRetry(c, r)
        \/ BeginClose(c) \/ ReadSequence(c) \/ ReadAttempt(c)
        \/ Transition(c) \/ Note(c) \/ Retry(c) \/ CloseSession(c) \/ Conflict(c)
  BY DEF RunNext
<1>2. CASE \E r \in Runs :
               \/ \E next \in {"running"} \cup Outcomes : BeginTransition(c, r, next)
               \/ BeginNote(c, r) \/ BeginRetry(c, r)
  BY <1>2, BeginTransitionKeeps, BeginNoteKeeps, BeginRetryKeeps
<1>3. CASE BeginClose(c) \/ ReadSequence(c) \/ ReadAttempt(c)
  BY <1>3, BeginCloseKeeps, ReadSequenceKeeps, ReadAttemptKeeps
<1>4. CASE Transition(c) \/ Note(c) \/ Retry(c)
  BY <1>4, TransitionKeeps, NoteKeeps, RetryKeeps
<1>5. CASE CloseSession(c)
  BY <1>5, FinishKeeps DEF CloseSession
<1>6. CASE Conflict(c)
  <2>1. Finish(c) /\ UNCHANGED <<lifecycle, run, timeline>>
    BY <1>6 DEF Conflict
  <2> QED
    BY <2>1, FinishKeeps DEF RunInv, RunRows
<1> QED
  BY <1>1, <1>2, <1>3, <1>4, <1>5, <1>6

LEMMA RunInvariant == RunSpec => []RunInv
<1>1. RunInv /\ UNCHANGED runVars => RunInv'
  BY DEF RunInv, RunRows, RetriesAreLinked, Runs, RunCallsKnow, RunsBounded, Retrying, runVars
<1>2. RunInv /\ [RunNext]_runVars => RunInv'
  BY <1>1, RunStep
<1> QED
  BY <1>2, RunsInitially, PTL DEF RunSpec

\* Runs, timelines and attempts are always well-typed, and within the bound.
THEOREM RunsTypeCorrect == RunSpec => []RunTypeOK
<1>1. ASSUME RunInv PROVE RunTypeOK
  <2>1. Len(run) \in Nat /\ Runs = 1 .. Len(run) /\ Cardinality(Runs) = Len(run)
    BY <1>1, RowTypes DEF RunInv
  <2>2. Runs = 1 .. Cardinality(Runs) /\ DOMAIN timeline = Runs /\ lifecycle \in {"active", "closed"}
    BY <1>1, <2>1 DEF RunInv, RunRows
  <2>3. Len(run) <= MaxRuns
    <3>1. IsFiniteSet({c \in RunCalls : Retrying(c)})
      BY RunConstants, FS_Subset
    <3>2. Cardinality({c \in RunCalls : Retrying(c)}) \in Nat
      BY <3>1, FS_CardinalityType
    <3> QED
      BY <1>1, <2>1, <3>2, RunConstants DEF RunInv, RunsBounded
  <2>4. ASSUME NEW r \in Runs
        PROVE  /\ run[r].state \in {"queued", "running"} \cup Outcomes /\ run[r].version \in 1..4
               /\ run[r].parent \in 0..(r - 1) /\ run[r].attempt \in 1..MaxRuns
    <3>1. run[r] \in RunRow /\ RunFits(r, run[r]) /\ r \in 1 .. Len(run)
      BY <1>1, <2>1, RowTypes DEF RunInv, RunRows
    <3> QED
      BY <2>1, <2>3, <3>1, RunConstants DEF RunRow, RunFits, RunStates
  <2> QED
    BY <2>2, <2>4 DEF RunTypeOK
<1> QED
  BY <1>1, RunInvariant, PTL

\* The timeline of a run tells the one history that its row went through,
\* without a gap, and retries follow failed runs with attempts of their own,
\* whatever calls of device, users, tools and approvals cross
\* (routes/device_runs.rs, routes/runs.rs).
THEOREM HistoryAlwaysWhole == RunSpec => []HistoryIsWhole
<1>1. RunInv => HistoryIsWhole
  <2> SUFFICES ASSUME RunInv PROVE TimelineTellsRun
    BY DEF RunInv, HistoryIsWhole
  <2>1. \A r \in Runs : Tells(timeline[r], run[r].state, run[r].version)
    BY RowTypes DEF RunInv, RunRows
  <2> QED
    BY <2>1 DEF TimelineTellsRun, Tells, StateEvents
<1> QED
  BY <1>1, RunInvariant, PTL
=============================================================================

------------------------------- MODULE Accounts -------------------------------
(***************************************************************************)
(* The account book (accounts.py): roots, children, successors, versions   *)
(* and the residuals registered against exact versions.  An account's      *)
(* identity is what it was opened from - its kind, scope and parent or     *)
(* predecessor - and does not cover its witnesses, so two openings may     *)
(* claim one identity.  Callers hold headers as values and pass them back; *)
(* the book looks up only the account and version of what is passed, so it *)
(* may be a rival's, opened elsewhere for the same account and version.    *)
(***************************************************************************)
EXTENDS Naturals, FiniteSets

CONSTANTS
    Scopes,
    Witnesses,
    MaxAccountVersion,  \* bound on versions
    MaxHeaders,         \* bound on the headers of the book
    MaxResiduals        \* bound on its residuals

ASSUME AccountsAssumption == {MaxAccountVersion, MaxHeaders, MaxResiduals} \subseteq Nat

VARIABLES
    headers,    \* the book, one header for each account and version
    exact,      \* history: the headers opened from a header that the book holds
    residuals   \* residual records, by content

accountVars == <<headers, exact, residuals>>

NoHeader == [none |-> TRUE]
AccountId(kind, scope, from) == [kind |-> kind, scope |-> scope, from |-> from]
Header(id, origin, version, prior, witness) ==
    [id |-> id, origin |-> origin, version |-> version, prior |-> prior, witness |-> witness]
AccountInit == headers = {} /\ exact = {} /\ residuals = {}

\* require: the exact account and version is in the book.
Required(header) == \E h \in headers : h.id = header.id /\ h.version = header.version

\* Mutant of Recordable: the last opening wins.
RecordableOver(header) == TRUE
\* _record: a header stays what it was first recorded as.
Recordable(header) ==
    \A h \in headers : h.id = header.id /\ h.version = header.version => h = header
RecordHeader(header, from) ==
    /\ Recordable(header)
    /\ headers' = {h \in headers : h.id # header.id \/ h.version # header.version} \cup {header}
    /\ exact' = exact \cup (IF from \in headers THEN {header} ELSE {})
    /\ Cardinality(headers') <= MaxHeaders
    /\ UNCHANGED residuals

OpenRoot(scope, witness) ==
    LET id == AccountId("root", scope, NoHeader)
    IN  RecordHeader(Header(id, id, 0, NoHeader, witness), NoHeader)
\* open_child, open_successor: the digest recorded is that of the header passed.
OpenFrom(kind, header, scope, witness) ==
    LET id == AccountId(kind, scope, header)
    IN  /\ Required(header)
        /\ RecordHeader(Header(id, id, 0, NoHeader, witness), header)
\* open_version: one next version for each account step, with the digest and the
\* origin of the header passed.
OpenVersion(header, witness) ==
    /\ Required(header)
    /\ header.version < MaxAccountVersion
    /\ RecordHeader(Header(header.id, header.origin, header.version + 1, header, witness), header)

RegisterResidual(header, statement) ==
    /\ Required(header)
    /\ Cardinality(residuals) < MaxResiduals
    /\ residuals' = residuals \cup {[account |-> header.id, version |-> header.version,
            statement |-> statement, status |-> "active", parents |-> {}]}
    /\ UNCHANGED <<headers, exact>>

\* transition_residual: parents that are in the book, and never back to active.
TransitionResidual(parents, header, statement, status) ==
    /\ Required(header)
    /\ parents # {} /\ parents \subseteq residuals
    /\ Cardinality(residuals) < MaxResiduals
    /\ residuals' = residuals \cup {[account |-> header.id, version |-> header.version,
            statement |-> statement, status |-> status, parents |-> parents]}
    /\ UNCHANGED <<headers, exact>>

\* What a caller may pass as a header of the book: one of it, or a rival's for the
\* same account and version, with other witnesses and perhaps of another origin.
Offered ==
    {[h EXCEPT !.origin = g.id, !.witness = w] : h \in headers, g \in headers, w \in Witnesses}
    \cup headers

\* Children and successors are opened from roots, and versions of anything.
AccountNext ==
    \E w \in Witnesses :
        \/ \E s \in Scopes :
            \/ OpenRoot(s, w)
            \/ \E h \in Offered, kind \in {"child", "successor"} :
                h.id.kind = "root" /\ OpenFrom(kind, h, s, w)
        \/ \E h \in Offered :
            \/ OpenVersion(h, w)
            \/ RegisterResidual(h, w)
            \/ \E r \in residuals, status \in {"discharged", "reopened"} :
                TransitionResidual({r}, h, w, status)
AccountSpec == AccountInit /\ [][AccountNext]_accountVars

\* What a header was opened from: the header it names as prior, parent or predecessor.
OpenedFrom(h) == IF h.version = 0 THEN h.id.from ELSE h.prior
\* The lineage of every account and version resolves: whatever header its opening
\* was passed, the account and version that it names are in the book, versions
\* follow one another from zero, and what was opened from a header of the book
\* names that very header, of one origin, for good.  Residuals and their parents
\* stand on versions that exist.
AccountsResolve ==
    /\ \A h \in headers :
        /\ OpenedFrom(h) # NoHeader => Required(OpenedFrom(h))
        /\ h.version # 0 => h.prior.id = h.id /\ h.prior.version = h.version - 1
        /\ h \in exact => OpenedFrom(h) \in headers
        /\ h \in exact /\ h.version # 0 => h.origin = h.prior.origin
    /\ \A r \in residuals :
        /\ \E h \in headers : h.id = r.account /\ h.version = r.version
        /\ r.parents \subseteq residuals
        /\ r.status = "active" <=> r.parents = {}
=============================================================================

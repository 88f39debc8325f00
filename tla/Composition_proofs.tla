-------------------------- MODULE Composition_proofs --------------------------
(***************************************************************************)
(* Proofs about Composition, for any deployments, consumer mixins,         *)
(* overrides, earlier compositions and consumer Bases.                     *)
(***************************************************************************)
EXTENDS Composition, FiniteSetTheorems, TLAPS

(* The inductive invariant: what each phase of the construction rests on. *)

Composing == {"schemas", "contract", "contract_error", "wire"}
Constructed == {"ready", "no_plugins", "sync_error", "synced"}

Arguments ==
    /\ plugins \in Deployments /\ root \in Roots
    /\ phase \in Phases
    /\ root \in Contexts => phase \notin Composing

OrderInv ==
    phase \in Composing \cup Constructed \cup {"model", "field_error", "table_error"} =>
        order \in Sorted /\ ~MissingDependency

ModelInv ==
    phase \in Composing \cup Constructed =>
        /\ CoreColumns \subseteq model
        /\ OnSqla => {"user"} \cup Related \subseteq DOMAIN tables /\ tables["user"] = model
        /\ IF root = "SqlaStorageContext" THEN ~ColumnsClash
           ELSE ~FieldsClash("table", Collect("table"))

SchemaInv ==
    /\ phase \in (Composing \ {"schemas"}) \cup Constructed /\ root \notin Contexts =>
          /\ \A s \in Schemas : ~FieldsClash(KindOf[s], MixinsOf(s))
          /\ schema = [s \in Schemas |-> Composed(s)]
    /\ phase \in {"wire"} \cup Constructed /\ root \notin Contexts => ContractHolds
    /\ phase \in Constructed /\ root \notin Contexts =>
          wired = <<"base">> \o [i \in DOMAIN order |-> order[i].name]

MigrationInv ==
    phase = "synced" =>
        \E ts : migration = With(WithPluginColumns(With(base, AuthTables)), ts)

RootInv == Arguments /\ OrderInv /\ ModelInv /\ SchemaInv /\ MigrationInv
------------------------------------------------------------------------------

\* A dependency order has every plugin, once.
LEMMA SortedIsAll ==
    ASSUME plugins \in Deployments, NEW s \in Sorted
    PROVE  /\ s \in Seq(ToSet(plugins))
           /\ \A p \in ToSet(plugins) : \E i \in DOMAIN s : s[i] = p
           /\ \A i, j \in DOMAIN s : s[i] = s[j] => i = j
           /\ \A i, j \in DOMAIN s : s[i].name \in s[j].depends_on => i < j
<1> DEFINE S == ToSet(plugins)
           n == Cardinality(S)
<1>1. plugins \in Seq(S) /\ DOMAIN plugins = 1..Len(plugins) /\ Len(plugins) \in Nat
  BY DeploymentsAssumption
<1>2. plugins \in Surjection(1..Len(plugins), S)
  BY <1>1 DEF Surjection, ToSet
<1>3. IsFiniteSet(S) /\ n \in Nat
  BY <1>1, <1>2, FS_Interval, FS_Surjection, FS_CardinalityType
<1>4. /\ s \in [1..n -> S]
      /\ \A i, j \in 1..n : i # j => s[i] # s[j]
      /\ \A i, j \in DOMAIN s : s[i].name \in s[j].depends_on => i < j
  BY DEF Sorted, SetToSeqs
<1>5. s \in Injection(1..n, S)
  BY <1>4 DEF Injection, IsInjective
<1>6. Cardinality(1..n) = n
  BY <1>3, FS_Interval
<1>7. s \in Surjection(1..n, S)
  BY <1>3, <1>5, <1>6, FS_Injection
<1>8. s \in Seq(S)
  BY <1>3, <1>4
<1> QED
  BY <1>4, <1>7, <1>8 DEF Surjection

\* What is composed depends on the arguments and the order only.
LEMMA SameComposition ==
    ASSUME UNCHANGED <<root, plugins, consumer, overrides, order>>
    PROVE  /\ OnSqla' = OnSqla /\ CoreColumns' = CoreColumns /\ Sorted' = Sorted
           /\ MissingDependency' = MissingDependency /\ ColumnsClash' = ColumnsClash
           /\ \A k \in Kinds : Collect(k)' = Collect(k)
           /\ \A s \in Schemas : MixinsOf(s)' = MixinsOf(s) /\ Composed(s)' = Composed(s)
<1>1. OnSqla' = OnSqla /\ CoreColumns' = CoreColumns
  BY DEF OnSqla, CoreColumns
<1>2. Sorted' = Sorted /\ MissingDependency' = MissingDependency
  BY DEF Sorted, MissingDependency, Provided
<1>3. ColumnsClash' = ColumnsClash
  BY <1>1 DEF ColumnsClash, Groups
<1>4. \A k : Collect(k)' = Collect(k)
  BY DEF Collect, Override
<1>5. \A s \in Schemas : MixinsOf(s)' = MixinsOf(s)
  BY <1>1, <1>4 DEF MixinsOf, Schemas
<1>6. \A s \in Schemas : Composed(s)' = Composed(s)
  BY <1>5 DEF Composed
<1> QED
  BY <1>1, <1>2, <1>3, <1>4, <1>5, <1>6

\* Before the order is resolved nothing is claimed.
LEMMA InitInv == Init => RootInv
  BY RootsAssumption DEF Init, RootInv, Arguments, OrderInv, ModelInv, SchemaInv, MigrationInv,
     Phases, Composing, Constructed, Contexts

\* Building the model: no collision, and the user table is the model.
LEMMA BuildModelInv ==
    ASSUME RootInv, BuildModel
    PROVE  /\ ModelInv'
           /\ \/ phase' \in {"field_error", "table_error"}
              \/ phase' = "ready" /\ root \in Contexts
              \/ phase' = "schemas" /\ root \notin Contexts
<1> USE DEF Composing, Constructed
<1>1. UNCHANGED <<root, plugins, consumer, overrides, order>> /\ phase = "model"
  BY DEF BuildModel, arguments
<1>2. /\ OnSqla' = OnSqla /\ CoreColumns' = CoreColumns /\ ColumnsClash' = ColumnsClash
      /\ Collect("table")' = Collect("table")
  BY <1>1, SameComposition DEF Kinds
<1>3. CASE root = "SqlaStorageContext" /\ ComposeContext
  <2> DEFINE made == With(With(TornDown, [t \in {"user"} |-> Columns]), [t \in Extras |-> {"id"}])
  <2>1. "user" \notin DOMAIN TornDown
    BY DEF TornDown, NoTables
  <2>2. "user" \in DOMAIN made /\ made["user"] = Columns
    BY <2>1 DEF With
  <2>3. /\ \A t \in DOMAIN made : t \in DOMAIN With(made, RelatedTables)
                                /\ With(made, RelatedTables)[t] = made[t]
        /\ Related \subseteq DOMAIN With(made, RelatedTables)
    <3> HIDE DEF made
    <3> QED
      BY DEF With, RelatedTables
  <2>4. CoreColumns \subseteq Columns
    <3>1. 0 \in DOMAIN Groups /\ Groups[0] = CoreColumns
      <4>1. Len(order) \in Nat
        BY <1>1, SortedIsAll DEF RootInv, OrderInv, Arguments
      <4> QED
        BY <4>1 DEF Groups
    <3> QED
      BY <3>1 DEF Columns
  <2>5. CASE phase' = "field_error"
    BY <1>3, <2>5 DEF ModelInv
  <2>6. CASE /\ ~ColumnsClash
             /\ tables' = IF "refresh_tokens" \in DOMAIN made THEN made
                          ELSE With(made, RelatedTables)
             /\ model' = made["user"]
             /\ phase' = IF Related \cap DOMAIN made # {} THEN "table_error" ELSE "ready"
    <3> HIDE DEF made
    <3>1. CASE Related \cap DOMAIN made # {}
      BY <1>3, <2>6, <3>1 DEF ModelInv
    <3>2. CASE Related \cap DOMAIN made = {}
      <4>1. tables' = With(made, RelatedTables)
        BY <2>6, <3>2 DEF Related
      <4> QED
        BY <1>1, <1>2, <1>3, <2>2, <2>3, <2>4, <2>6, <3>2, <4>1 DEF ModelInv, Contexts
    <3> QED
      BY <3>1, <3>2
  <2> QED
    BY <1>3, <2>1, <2>5, <2>6 DEF ComposeContext
<1>4. CASE root = "SQLAlchemyAuth" /\ ComposeModels
  <2> DEFINE made == With(TornDown, RelatedTables)
             user == [t \in {"user"} |-> CoreColumns \cup FieldsOf(Collect("table"))]
  <2>1. DOMAIN made = Related
    BY DEF With, TornDown, NoTables, RelatedTables
  <2>2. CASE phase' \in {"table_error", "field_error"}
    BY <1>4, <2>2 DEF ModelInv
  <2>3. CASE /\ ~FieldsClash("table", Collect("table"))
             /\ model' = CoreColumns \cup FieldsOf(Collect("table"))
             /\ tables' = With(made, user)
             /\ phase' = "schemas"
    <3>1. /\ {"user"} \cup Related \subseteq DOMAIN With(made, user)
          /\ With(made, user)["user"] = CoreColumns \cup FieldsOf(Collect("table"))
      <4> HIDE DEF made
      <4> QED
        BY <2>1 DEF With, Related
    <3> HIDE DEF made, user
    <3>2. ~FieldsClash("table", Collect("table"))'
      BY <1>2, <2>3 DEF FieldsClash, DeclaredBy, Reserved, Collide
    <3> QED
      BY <1>1, <1>2, <1>4, <2>3, <3>1, <3>2 DEF ModelInv, Contexts
  <2>4. \/ phase' \in {"table_error", "field_error"}
        \/ /\ ~FieldsClash("table", Collect("table"))
           /\ model' = CoreColumns \cup FieldsOf(Collect("table"))
           /\ tables' = With(made, [t \in {"user"} |-> model'])
           /\ phase' = "schemas"
    BY <1>4 DEF ComposeModels
  <2>5. [t \in {"user"} |-> model'] = user \/ model' # CoreColumns \cup FieldsOf(Collect("table"))
    OBVIOUS
  <2> QED
    BY <2>2, <2>3, <2>4, <2>5
<1>5. CASE root \in {"BeanieAuth", "BeanieStorageContext"} /\ ComposeDocument
  <2>1. CASE phase' = "field_error"
    BY <1>5, <2>1 DEF ModelInv
  <2>2. CASE /\ ~FieldsClash("table", Collect("table"))
             /\ model' = CoreColumns \cup FieldsOf(Collect("table"))
             /\ phase' = IF root \in Contexts THEN "ready" ELSE "schemas"
    <3>1. ~FieldsClash("table", Collect("table"))'
      BY <1>2, <2>2 DEF FieldsClash, DeclaredBy, Reserved, Collide
    <3>2. ~OnSqla
      BY <1>5 DEF OnSqla
    <3> QED
      BY <1>1, <1>2, <1>5, <2>2, <3>1, <3>2 DEF ModelInv, Contexts
  <2> QED
    BY <1>5, <2>1, <2>2 DEF ComposeDocument
<1>6. root \in {"SqlaStorageContext", "SQLAlchemyAuth", "BeanieAuth", "BeanieStorageContext"}
  BY RootsAssumption DEF RootInv, Arguments, Contexts
<1> QED
  BY <1>3, <1>4, <1>5, <1>6 DEF BuildModel

\* Each phase establishes its own part and leaves those before it alone.
LEMMA StepInv == RootInv /\ [Next]_vars => RootInv'
<1> SUFFICES ASSUME RootInv, [Next]_vars PROVE RootInv'
  OBVIOUS
<1> USE DEF RootInv, Composing, Constructed
<1>1. CASE Resolve
  <2>1. phase' = "model" => order' \in Sorted /\ ~MissingDependency
    BY <1>1 DEF Resolve
  <2>2. UNCHANGED arguments /\ phase' \in {"dependency_error", "cycle_error", "model"}
    BY <1>1 DEF Resolve
  <2>3. Sorted' = Sorted /\ MissingDependency' = MissingDependency
    BY <2>2 DEF Sorted, MissingDependency, Provided, arguments
  <2> QED
    BY <2>1, <2>2, <2>3 DEF Arguments, OrderInv, ModelInv, SchemaInv, MigrationInv, arguments, Phases
<1>2. CASE BuildModel
  <2>1. UNCHANGED <<arguments, order, schema, wired, command>> /\ phase = "model"
    BY <1>2 DEF BuildModel
  <2>2. Sorted' = Sorted /\ MissingDependency' = MissingDependency
    BY <2>1, SameComposition DEF arguments
  <2> QED
    BY <1>2, <2>1, <2>2, BuildModelInv
    DEF Arguments, OrderInv, SchemaInv, MigrationInv, arguments, Phases
<1>3. ASSUME UNCHANGED <<arguments, order, tables, model>>
      PROVE  /\ Sorted' = Sorted /\ MissingDependency' = MissingDependency
             /\ phase \in Composing \cup Constructed => OrderInv' /\ ModelInv'
             /\ \A s \in Schemas :
                   /\ FieldsClash(KindOf[s], MixinsOf(s))' = FieldsClash(KindOf[s], MixinsOf(s))
                   /\ Composed(s)' = Composed(s)
  <2>1. UNCHANGED <<root, plugins, consumer, overrides, order>>
    BY <1>3 DEF arguments
  <2>2. /\ OnSqla' = OnSqla /\ CoreColumns' = CoreColumns /\ Sorted' = Sorted
        /\ MissingDependency' = MissingDependency /\ ColumnsClash' = ColumnsClash
        /\ Collect("table")' = Collect("table")
        /\ \A s \in Schemas : MixinsOf(s)' = MixinsOf(s) /\ Composed(s)' = Composed(s)
    BY <2>1, SameComposition DEF Kinds
  <2>3. FieldsClash("table", Collect("table"))' = FieldsClash("table", Collect("table"))
    BY <2>2 DEF FieldsClash, DeclaredBy, Reserved, Collide
  <2>4. \A s \in Schemas :
          FieldsClash(KindOf[s], MixinsOf(s))' = FieldsClash(KindOf[s], MixinsOf(s))
    BY <2>2 DEF FieldsClash, DeclaredBy, Reserved, Collide
  <2>5. phase \in Composing \cup Constructed => OrderInv' /\ ModelInv'
    BY <1>3, <2>1, <2>2, <2>3 DEF OrderInv, ModelInv
  <2> QED
    BY <2>2, <2>4, <2>5
<1>4. CASE BuildSchemas
  <2>1. /\ UNCHANGED <<arguments, order, tables, model, wired, command>> /\ phase = "schemas"
        /\ \/ phase' = "field_error"
           \/ /\ \A s \in Schemas : ~FieldsClash(KindOf[s], MixinsOf(s))
              /\ schema' = [s \in Schemas |-> Composed(s)]
              /\ phase' = "contract"
    BY <1>4 DEF BuildSchemas
  <2>2. root' = root /\ root \notin Contexts
    BY <2>1 DEF Arguments, arguments
  <2> QED
    BY <1>3, <2>1, <2>2 DEF Arguments, SchemaInv, MigrationInv, arguments, Phases
<1>5. CASE ContractCheck
  <2>1. /\ UNCHANGED <<arguments, order, tables, model, schema, wired, command>>
        /\ phase = "contract"
        /\ phase' = IF ContractHolds THEN "wire" ELSE "contract_error"
    BY <1>5 DEF ContractCheck
  <2>2. ContractHolds' = ContractHolds
    BY <2>1 DEF ContractHolds
  <2>3. root' = root /\ root \notin Contexts
    BY <2>1 DEF Arguments, arguments
  <2> QED
    BY <1>3, <2>1, <2>2, <2>3 DEF Arguments, SchemaInv, MigrationInv, arguments, Phases
<1>6. CASE Wire
  <2>1. /\ UNCHANGED <<arguments, order, tables, model, schema, command>>
        /\ phase = "wire" /\ phase' = "ready"
        /\ wired' = <<"base">> \o [i \in DOMAIN order |-> order[i].name]
    BY <1>6 DEF Wire
  <2>2. ContractHolds' = ContractHolds
    BY <2>1 DEF ContractHolds
  <2>3. root' = root /\ root \notin Contexts
    BY <2>1 DEF Arguments, arguments
  <2> QED
    BY <1>3, <2>1, <2>2, <2>3 DEF Arguments, SchemaInv, MigrationInv, arguments, Phases
<1>7. CASE Sync
  <2>1. /\ UNCHANGED <<arguments, order, tables, model, schema, wired>>
        /\ phase = "ready" /\ phase' \in {"no_plugins", "sync_error", "synced"}
    BY <1>7 DEF Sync
  <2>2. phase' = "synced" =>
          migration' = With(WithPluginColumns(With(base', AuthTables)), [t \in Extras |-> {"id"}])
    BY <1>7 DEF Sync
  <2>3. AuthTables' = AuthTables /\ \A ts : WithPluginColumns(ts)' = WithPluginColumns(ts)
    BY <2>1 DEF AuthTables, OnSqla, WithPluginColumns, UserColumns, CoreColumns, arguments
  <2>4. MigrationInv'
    <3>1. ASSUME phase' = "synced" PROVE MigrationInv'
      <4>1. With(base, AuthTables)' = With(base', AuthTables)
        BY <2>3 DEF With
      <4>2. WithPluginColumns(With(base, AuthTables))' = WithPluginColumns(With(base', AuthTables))
        BY <2>1, <4>1 DEF WithPluginColumns, UserColumns, CoreColumns, OnSqla, arguments
      <4> DEFINE ts == [t \in Extras |-> {"id"}]
      <4>3. migration' = With(WithPluginColumns(With(base, AuthTables))', ts)
        BY <2>2, <3>1, <4>2
      <4> QED
        BY <4>3 DEF MigrationInv, With
    <3> QED
      BY <3>1 DEF MigrationInv
  <2>5. ContractHolds' = ContractHolds
    BY <2>1 DEF ContractHolds
  <2> QED
    BY <1>3, <2>1, <2>4, <2>5 DEF Arguments, SchemaInv, arguments, Phases
<1>8. CASE UNCHANGED vars
  <2>1. ContractHolds' = ContractHolds /\ UNCHANGED <<arguments, order, tables, model>>
    BY <1>8 DEF ContractHolds, vars
  <2>2. MigrationInv'
    <3>1. UNCHANGED <<root, order, tables, base, migration, phase>>
      BY <1>8 DEF vars, arguments, command
    <3>2. With(base, AuthTables)' = With(base, AuthTables)
      BY <3>1 DEF With, AuthTables, OnSqla
    <3>3. WithPluginColumns(With(base, AuthTables))' = WithPluginColumns(With(base, AuthTables))
      BY <3>1, <3>2 DEF WithPluginColumns, UserColumns, CoreColumns, OnSqla
    <3>4. ASSUME phase' = "synced" PROVE MigrationInv'
      <4>1. PICK ts : migration = With(WithPluginColumns(With(base, AuthTables)), ts)
        BY <3>1, <3>4 DEF MigrationInv
      <4>2. migration' = With(WithPluginColumns(With(base, AuthTables))', ts)
        BY <3>1, <3>3, <4>1
      <4> QED
        BY <4>2 DEF MigrationInv, With
    <3> QED
      BY <3>4 DEF MigrationInv
  <2>3. OrderInv' /\ ModelInv'
    BY <1>3, <1>8, <2>1 DEF OrderInv, ModelInv, vars, arguments
  <2> QED
    BY <1>3, <1>8, <2>1, <2>2, <2>3 DEF Arguments, SchemaInv, vars, arguments
<1> QED
  BY <1>1, <1>2, <1>4, <1>5, <1>6, <1>7, <1>8 DEF Next

\* What a phase has done stays done until the construction ends.
THEOREM RootInvariant == Spec => []RootInv
  BY InitInv, StepInv, PTL DEF Spec
------------------------------------------------------------------------------

\* The contract check skips email and password; that no update mixin declares them, and that
\* the admin schema has the mixins of the user's, makes up for it.
LEMMA AcceptedStored ==
    ASSUME RootInv, phase \in Constructed, root \notin Contexts
    PROVE  /\ schema["UserCreate"] \ BaseFields["UserCreate"] \subseteq model
           /\ schema["UserUpdate"] \cup schema["UserAdminUpdate"]
                 \subseteq model \cup (Hidden \cap {"password"})
<1>1. /\ \A s \in Schemas : ~FieldsClash(KindOf[s], MixinsOf(s))
      /\ schema = [s \in Schemas |-> Composed(s)]
      /\ ContractHolds /\ CoreColumns \subseteq model
  BY DEF RootInv, SchemaInv, ModelInv, Constructed, Composing
<1>2. schema["UserCreate"] \ {"password"} \subseteq model
  BY <1>1 DEF ContractHolds, Unchecked
<1>3. schema["UserUpdate"] \ {"password", "email"} \subseteq model
  BY <1>1 DEF ContractHolds, Unchecked
<1>4. "password" \in BaseFields["UserCreate"]
  BY DEF BaseFields
<1>5. DeclaredBy(Collect("update")) \cap {"email", "password"} = {}
  BY <1>1 DEF FieldsClash, KindOf, MixinsOf, Reserved, Schemas
<1>6. schema["UserUpdate"] = {"display_name"} \cup FieldsOf(Collect("update"))
  BY <1>1 DEF Composed, MixinsOf, BaseFields, Schemas
<1>7. schema["UserUpdate"] \subseteq model \cup (Hidden \cap {"password"})
  <2>1. "email" \in model
    BY <1>1 DEF CoreColumns
  <2>2. "password" \in FieldsOf(Collect("update")) => "password" \in Hidden
    BY <1>5 DEF Hidden
  <2> QED
    BY <1>3, <1>6, <2>1, <2>2
<1>8. schema["UserAdminUpdate"] \subseteq {"is_active"} \cup FieldsOf(Collect("update"))
  BY <1>1 DEF Composed, MixinsOf, BaseFields, Schemas, FieldsOf
<1>9. "is_active" \in model
  BY <1>1 DEF CoreColumns
<1> QED
  BY <1>2, <1>4, <1>6, <1>7, <1>8, <1>9

\* Whatever plugins and overrides a deployment combines, a root that constructed has
\* a column for every field its clients may send, except a password that an update
\* mixin contributes unseen.
THEOREM FieldsAreStored == Spec => []AcceptedFieldsAreStored
<1>1. RootInv => AcceptedFieldsAreStored
  BY AcceptedStored DEF AcceptedFieldsAreStored, Constructed
<1> QED
  BY <1>1, RootInvariant, PTL

\* Every plugin is wired, after the host and after all it depends on.
THEOREM HooksFollowDependencies == Spec => []DependenciesFirst
<1>1. RootInv => DependenciesFirst
  <2> SUFFICES ASSUME RootInv, phase = "ready", root \notin Contexts, NEW p \in ToSet(plugins)
               PROVE  Before("base", p.name) /\ \A d \in p.depends_on : Before(d, p.name)
    BY DEF DependenciesFirst
  <2>1. /\ order \in Sorted /\ ~MissingDependency /\ plugins \in Deployments
        /\ wired = <<"base">> \o [i \in DOMAIN order |-> order[i].name]
    BY DEF RootInv, OrderInv, SchemaInv, Arguments, Constructed
  <2>2. /\ order \in Seq(ToSet(plugins))
        /\ \A q \in ToSet(plugins) : \E i \in DOMAIN order : order[i] = q
        /\ \A i, j \in DOMAIN order : order[i].name \in order[j].depends_on => i < j
    BY <2>1, SortedIsAll
  <2> DEFINE names == [i \in DOMAIN order |-> order[i].name]
  <2>3. DOMAIN order = 1..Len(order) /\ Len(order) \in Nat
    BY <2>2
  <2>4. names \in Seq({q.name : q \in ToSet(plugins)}) /\ Len(names) = Len(order)
    <3>1. \A i \in DOMAIN order : order[i] \in ToSet(plugins)
      BY <2>2
    <3>2. names \in [1..Len(order) -> {q.name : q \in ToSet(plugins)}]
      BY <2>3, <3>1
    <3> QED
      BY <2>3, <3>2
  <2>5. /\ DOMAIN wired = 1..(Len(order) + 1) /\ wired[1] = "base"
        /\ \A i \in DOMAIN order : wired[i + 1] = order[i].name
    <3>1. \A i \in DOMAIN order : names[i] = order[i].name
      OBVIOUS
    <3> HIDE DEF names
    <3>2. wired = <<"base">> \o names
      BY <2>1 DEF names
    <3> QED
      BY <2>3, <2>4, <3>1, <3>2
  <2>6. PICK j \in DOMAIN order : order[j] = p
    BY <2>2
  <2>7. Before("base", p.name)
    BY <2>3, <2>5, <2>6 DEF Before
  <2>8. ASSUME NEW d \in p.depends_on PROVE Before(d, p.name)
    <3>1. PICK q \in ToSet(plugins) : q.name = d
      BY <2>1 DEF MissingDependency, Provided
    <3>2. PICK i \in DOMAIN order : order[i] = q
      BY <2>2
    <3>3. i < j
      BY <2>2, <2>6, <3>1, <3>2
    <3> QED
      BY <2>3, <2>5, <2>6, <3>1, <3>2, <3>3 DEF Before
  <2> QED
    BY <2>7, <2>8
<1> QED
  BY <1>1, RootInvariant, PTL

\* The migration has every column the running root writes and every table that
\* refers to the user.
THEOREM MigrationAgrees == Spec => []MigrationServesRoot
<1>1. RootInv => MigrationServesRoot
  <2> SUFFICES ASSUME RootInv, phase = "synced", OnSqla
               PROVE  /\ ({"user"} \cup Related) \ DOMAIN base \subseteq DOMAIN migration
                      /\ "user" \notin DOMAIN base =>
                            /\ model \subseteq migration["user"]
                            /\ root \notin Contexts =>
                                  schema["UserUpdate"] \cup schema["UserAdminUpdate"]
                                      \subseteq migration["user"] \cup (Hidden \cap {"password"})
    BY DEF MigrationServesRoot
  <2>1. {"user"} \cup Related \subseteq DOMAIN tables /\ tables["user"] = model
    BY DEF RootInv, ModelInv, Constructed
  <2> DEFINE copied == With(base, AuthTables)
             full == WithPluginColumns(copied)
  <2>2. PICK ts : migration = With(full, ts)
    BY DEF RootInv, MigrationInv
  <2>3. AuthTables = tables
    BY DEF AuthTables
  <2>4. /\ {"user"} \cup Related \subseteq DOMAIN copied
        /\ "user" \notin DOMAIN base => copied["user"] = model
    BY <2>1, <2>3 DEF With
  <2> HIDE DEF copied
  <2>5. /\ DOMAIN copied \subseteq DOMAIN full
        /\ copied["user"] \subseteq full["user"]
    BY <2>4 DEF WithPluginColumns
  <2> HIDE DEF full
  <2>6. DOMAIN full \subseteq DOMAIN migration /\ migration["user"] = full["user"]
    BY <2>2, <2>4, <2>5 DEF With
  <2>7. root \notin Contexts => schema["UserUpdate"] \cup schema["UserAdminUpdate"]
                                     \subseteq model \cup (Hidden \cap {"password"})
    BY AcceptedStored DEF Constructed
  <2> QED
    BY <2>4, <2>5, <2>6, <2>7
<1> QED
  BY <1>1, RootInvariant, PTL

\* The tables that Alembic and create_all see are this deployment's, whatever an
\* earlier construction left in the shared metadata.
THEOREM MetadataStaysOwn == Spec => []MetadataIsOwn
<1>1. Init => MetadataIsOwn
  BY DEF Init, MetadataIsOwn
<1>2. RootInv /\ MetadataIsOwn /\ [Next]_vars => MetadataIsOwn'
  <2> SUFFICES ASSUME RootInv, MetadataIsOwn, [Next]_vars, OnSqla' PROVE MetadataIsOwn'
    BY DEF MetadataIsOwn
  <2>1. UNCHANGED arguments
    BY DEF Next, Resolve, BuildModel, BuildSchemas, ContractCheck, Wire, Sync, vars
  <2>2. OnSqla /\ UNCHANGED <<root, plugins, consumer, overrides>>
    BY <2>1 DEF OnSqla, arguments
  <2>3. CASE Resolve
    BY <2>3 DEF Resolve, MetadataIsOwn
  <2>4. CASE BuildSchemas \/ ContractCheck \/ Wire \/ Sync \/ UNCHANGED vars
    <3>1. UNCHANGED <<tables, order>>
      BY <2>4 DEF BuildSchemas, ContractCheck, Wire, Sync, vars
    <3>2. CoreColumns' = CoreColumns /\ Collect("table")' = Collect("table")
      BY <2>2, <3>1, SameComposition DEF Kinds
    <3>3. \/ phase' = phase
          \/ /\ phase \in {"schemas", "contract", "wire", "ready"}
             /\ phase' = "field_error" => root \notin Contexts
      BY <2>4 DEF BuildSchemas, ContractCheck, Wire, Sync, vars, RootInv, Arguments, Composing
    <3> QED
      BY <2>2, <3>1, <3>2, <3>3 DEF MetadataIsOwn, FieldsOf
  <2>5. CASE BuildModel
    <3>1. UNCHANGED order /\ phase = "model"
      BY <2>5 DEF BuildModel
    <3>2. CoreColumns' = CoreColumns /\ Collect("table")' = Collect("table")
      BY <2>2, <3>1, SameComposition DEF Kinds
    <3>3. /\ order \in Seq(ToSet(plugins))
          /\ \A p \in ToSet(plugins) : \E i \in DOMAIN order : order[i] = p
      BY <3>1, SortedIsAll DEF RootInv, OrderInv, Arguments
    <3>4. ToSet(order) = ToSet(plugins)
      BY <3>3 DEF ToSet
    <3>5. CASE root = "SqlaStorageContext" /\ ComposeContext
      <4> DEFINE plain == With(TornDown, [t \in {"user"} |-> Columns])
                 made == With(plain, [t \in Extras |-> {"id"}])
      <4>1. DOMAIN TornDown = {}
        BY DEF TornDown, NoTables
      <4>2. DOMAIN plain = {"user"} /\ plain["user"] = Columns
        BY <4>1 DEF With
      <4>3. DOMAIN made = {"user"} \cup Extras /\ made["user"] = Columns
        <5> HIDE DEF plain
        <5> QED
          BY <4>2 DEF With
      <4>4. Extras = UNION {p.tables : p \in ToSet(plugins)}
        BY <3>4 DEF Extras
      <4>5. Columns = CoreColumns \cup (UNION {p.columns : p \in ToSet(plugins)})
                        \cup FieldsOf(consumer["table"])
        <5>1. DOMAIN order = 1..Len(order) /\ Len(order) \in Nat
          BY <3>3
        <5>2. /\ DOMAIN Groups = 0..Len(order) + 1
              /\ Groups[0] = CoreColumns /\ Groups[Len(order) + 1] = FieldsOf(consumer["table"])
              /\ \A i \in DOMAIN order : Groups[i] = order[i].columns
          BY <5>1 DEF Groups
        <5>3. \A g \in DOMAIN Groups : g = 0 \/ g = Len(order) + 1 \/ g \in DOMAIN order
          BY <5>1, <5>2
        <5>4. 0 \in DOMAIN Groups /\ Len(order) + 1 \in DOMAIN Groups
              /\ \A i \in DOMAIN order : i \in DOMAIN Groups
          BY <5>1, <5>2
        <5>5. UNION {p.columns : p \in ToSet(plugins)} = UNION {order[i].columns : i \in DOMAIN order}
          BY <3>4 DEF ToSet
        <5> QED
          BY <5>2, <5>3, <5>4, <5>5 DEF Columns
      <4> HIDE DEF made
      <4>6. \/ phase' = "table_error"
            \/ phase' = "field_error" /\ tables' = TornDown
            \/ phase' = "ready" /\ tables' = With(made, RelatedTables)
        BY <3>5 DEF ComposeContext, made, Related
      <4>7. /\ DOMAIN With(made, RelatedTables) = {"user"} \cup Extras \cup Related
            /\ With(made, RelatedTables)["user"] = Columns
        BY <4>3 DEF With, RelatedTables
      <4> QED
        BY <2>2, <3>2, <3>5, <4>1, <4>4, <4>5, <4>6, <4>7 DEF MetadataIsOwn, Contexts, FieldsOf
    <3>6. CASE root = "SQLAlchemyAuth" /\ ComposeModels
      <4> DEFINE made == With(TornDown, RelatedTables)
                 columns == CoreColumns \cup FieldsOf(Collect("table"))
                 user == [t \in {"user"} |-> columns]
      <4>1. DOMAIN made = Related /\ DOMAIN TornDown = {}
        BY DEF With, TornDown, NoTables, RelatedTables
      <4> HIDE DEF made
      <4>2. \/ phase' = "table_error"
            \/ phase' = "field_error" /\ tables' = made
            \/ phase' = "schemas" /\ model' = columns /\ tables' = With(made, [t \in {"user"} |-> model'])
        BY <3>6 DEF ComposeModels, made
      <4> HIDE DEF columns
      <4>3. \/ phase' = "table_error"
            \/ phase' = "field_error" /\ tables' = made
            \/ phase' = "schemas" /\ tables' = With(made, user)
        BY <4>2
      <4>4. DOMAIN With(made, user) = {"user"} \cup Related /\ With(made, user)["user"] = columns
        BY <4>1 DEF With, Related
      <4>5. columns = (CoreColumns \cup FieldsOf(Collect("table")))'
        BY <3>2 DEF columns, FieldsOf
      <4> HIDE DEF user
      <4> QED
        BY <2>2, <3>6, <4>1, <4>3, <4>4, <4>5 DEF MetadataIsOwn, Contexts
    <3> QED
      BY <2>2, <2>5, <3>5, <3>6 DEF BuildModel, OnSqla
  <2> QED
    BY <2>3, <2>4, <2>5 DEF Next
<1> QED
  BY <1>1, <1>2, RootInvariant, PTL DEF Spec
------------------------------------------------------------------------------
(* Types. *)

\* Tables of declared columns.
NamedColumns(ts) == \A t \in DOMAIN ts : ts[t] \subseteq Nameable

TypeInv == RootInv /\ TypeOK

\* What is declared, source by source.
LEMMA NameableSources ==
    /\ CoreColumns \cup {"id", "user_id", "display_name"} \subseteq Nameable
    /\ \A ts \in Leftovers \cup Bases : NamedColumns(ts)
    /\ \A p \in ToSet(plugins) : p.columns \subseteq Nameable
    /\ \A p \in ToSet(plugins) : \A m \in p.mixins["table"] : m.fields \subseteq Nameable
    /\ \A m \in consumer["table"] : m.fields \subseteq Nameable
    /\ \A n \in DOMAIN overrides : overrides[n].fields \subseteq Nameable
<1> DEFINE own == UNION {p.mixins["table"] : p \in ToSet(plugins)}
           replacing == {overrides[n] : n \in DOMAIN overrides}
           classes == own \cup consumer["table"] \cup replacing
           fields == UNION {m.fields : m \in classes}
           present == UNION {{ts[t] : t \in DOMAIN ts} : ts \in Leftovers \cup Bases}
           columns == UNION {p.columns : p \in ToSet(plugins)}
<1>1. Nameable = CoreColumns \cup {"display_name"} \cup RelatedColumns \cup (UNION present)
                   \cup columns \cup fields
  BY DEF Nameable
<1>2. \A m \in classes : m.fields \subseteq fields
  OBVIOUS
<1>3. \A p \in ToSet(plugins) : p.mixins["table"] \subseteq classes
  OBVIOUS
<1>4. /\ consumer["table"] \subseteq classes
      /\ \A n \in DOMAIN overrides : overrides[n] \in classes
  OBVIOUS
<1>5. \A ts \in Leftovers \cup Bases : \A t \in DOMAIN ts : ts[t] \in present
  OBVIOUS
<1>6. \A p \in ToSet(plugins) : p.columns \subseteq columns
  OBVIOUS
<1> HIDE DEF classes, fields, present, columns
<1>7. CoreColumns \cup {"id", "user_id", "display_name"} \subseteq Nameable
  BY <1>1 DEF RelatedColumns
<1>8. \A ts \in Leftovers \cup Bases : NamedColumns(ts)
  BY <1>1, <1>5 DEF NamedColumns
<1>9. fields \subseteq Nameable /\ columns \subseteq Nameable
  BY <1>1
<1> QED
  BY <1>2, <1>3, <1>4, <1>6, <1>7, <1>8, <1>9

\* What is taken over from either side keeps its names.
LEMMA WithNamed ==
    ASSUME NEW ts, NEW more, NamedColumns(ts), NamedColumns(more)
    PROVE  NamedColumns(With(ts, more))
  BY DEF NamedColumns, With

\* Every field of the user model's mixins is declared, overridden or not.
LEMMA FieldsNamed ==
    ASSUME ToSet(order) \subseteq ToSet(plugins)
    PROVE  FieldsOf(Collect("table")) \subseteq Nameable /\ FieldsOf(consumer["table"]) \subseteq Nameable
<1> DEFINE classes == (UNION {p.mixins["table"] : p \in ToSet(order)}) \cup consumer["table"]
<1>1. \A m \in classes : m.fields \subseteq Nameable
  <2> SUFFICES ASSUME NEW m \in classes PROVE m.fields \subseteq Nameable
    OBVIOUS
  <2>1. CASE m \in consumer["table"]
    BY <2>1, NameableSources
  <2>2. CASE m \in UNION {p.mixins["table"] : p \in ToSet(order)}
    <3>1. PICK p \in ToSet(order) : m \in p.mixins["table"]
      BY <2>2
    <3> QED
      BY <3>1, NameableSources
  <2> QED
    BY <2>1, <2>2
<1>2. \A m \in classes : Override(m).fields \subseteq Nameable
  BY <1>1, NameableSources DEF Override
<1>3. Collect("table") = {Override(m) : m \in classes}
  BY DEF Collect
<1> HIDE DEF classes
<1>4. \A m \in Collect("table") : m.fields \subseteq Nameable
  BY <1>2, <1>3
<1> QED
  BY <1>4, NameableSources DEF FieldsOf

\* The columns of a storage context are declared, the core's among them.
LEMMA ColumnsNamed ==
    ASSUME TypeInv, OrderInv, phase = "model"
    PROVE  CoreColumns \subseteq Columns /\ Columns \subseteq Nameable
<1>1. /\ order \in Seq(ToSet(plugins)) /\ ToSet(order) \subseteq ToSet(plugins)
      /\ \A i \in DOMAIN order : order[i] \in ToSet(plugins)
  BY SortedIsAll DEF TypeInv, TypeOK, RootInv, Arguments, OrderInv
<1>2. DOMAIN order = 1..Len(order) /\ Len(order) \in Nat
  BY <1>1
<1>3. /\ DOMAIN Groups = 0..Len(order) + 1
      /\ Groups[0] = CoreColumns /\ Groups[Len(order) + 1] = FieldsOf(consumer["table"])
      /\ \A i \in DOMAIN order : Groups[i] = order[i].columns
  BY <1>2 DEF Groups
<1>4. \A g \in DOMAIN Groups : g = 0 \/ g = Len(order) + 1 \/ g \in DOMAIN order
  BY <1>2, <1>3
<1>5. \A g \in DOMAIN Groups : Groups[g] \subseteq Nameable
  BY <1>1, <1>3, <1>4, FieldsNamed, NameableSources
<1>6. 0 \in DOMAIN Groups
  BY <1>2, <1>3
<1> QED
  BY <1>3, <1>5, <1>6 DEF Columns

\* The tables and the model of whatever is composed.
LEMMA BuildModelTyped ==
    ASSUME TypeInv, BuildModel
    PROVE  /\ NamedColumns(tables')
           /\ CoreColumns \subseteq model' /\ model' \subseteq Nameable
<1>1. /\ phase = "model" /\ CoreColumns \subseteq model /\ model \subseteq Nameable
      /\ ToSet(order) \subseteq ToSet(plugins) /\ NamedColumns(tables)
  BY DEF TypeInv, TypeOK, BuildModel, RootInv, Arguments, NamedColumns
<1>2. /\ CoreColumns \subseteq Columns /\ Columns \subseteq Nameable
      /\ CoreColumns \subseteq Nameable
  BY <1>1, NameableSources, ColumnsNamed DEF TypeInv, RootInv
<1>3. FieldsOf(Collect("table")) \subseteq Nameable
  BY <1>1, FieldsNamed
<1>4. NamedColumns(TornDown) /\ NamedColumns(RelatedTables)
  BY NameableSources DEF NamedColumns, TornDown, NoTables, RelatedTables, RelatedColumns
<1>5. \A S, n : n \subseteq Nameable => NamedColumns([t \in S |-> n])
  BY DEF NamedColumns
<1>6. CASE root = "SqlaStorageContext" /\ ComposeContext
  <2> DEFINE user == [t \in {"user"} |-> Columns]
             extra == [t \in Extras |-> {"id"}]
             plain == With(TornDown, user)
             made == With(plain, extra)
  <2>1. NamedColumns(user) /\ NamedColumns(extra)
    BY <1>2, <1>5, NameableSources
  <2>2. made["user"] = Columns
    BY DEF With, TornDown, NoTables
  <2>3. \/ tables' = TornDown /\ UNCHANGED model
        \/ tables' \in {made, With(made, RelatedTables)} /\ model' = made["user"]
    BY <1>6 DEF ComposeContext
  <2> HIDE DEF user, extra
  <2>4. NamedColumns(plain)
    BY <1>4, <2>1, WithNamed
  <2> HIDE DEF plain
  <2>5. NamedColumns(made)
    BY <2>1, <2>4, WithNamed
  <2> HIDE DEF made
  <2>6. NamedColumns(With(made, RelatedTables))
    BY <1>4, <2>5, WithNamed
  <2> QED
    BY <1>1, <1>2, <1>4, <2>2, <2>3, <2>5, <2>6
<1>7. CASE root = "SQLAlchemyAuth" /\ ComposeModels
  <2> DEFINE made == With(TornDown, RelatedTables)
             columns == CoreColumns \cup FieldsOf(Collect("table"))
             user == [t \in {"user"} |-> columns]
  <2>1. NamedColumns(made) /\ NamedColumns(user)
    BY <1>2, <1>3, <1>4, <1>5, WithNamed
  <2>2. NamedColumns(With(made, user))
    BY <2>1, WithNamed
  <2> HIDE DEF made, columns
  <2>3. \/ tables' \in {TornDown, made} /\ UNCHANGED model
        \/ model' = columns /\ tables' = With(made, [t \in {"user"} |-> model'])
    BY <1>7 DEF ComposeModels, made, columns
  <2>4. \/ tables' \in {TornDown, made} /\ UNCHANGED model
        \/ model' = columns /\ tables' = With(made, user)
    BY <2>3
  <2> QED
    BY <1>1, <1>2, <1>3, <1>4, <2>1, <2>2, <2>4 DEF columns
<1>8. CASE root \in {"BeanieAuth", "BeanieStorageContext"} /\ ComposeDocument
  BY <1>1, <1>2, <1>3, <1>8 DEF ComposeDocument
<1>9. root \in {"SqlaStorageContext", "SQLAlchemyAuth", "BeanieAuth", "BeanieStorageContext"}
  BY RootsAssumption DEF TypeInv, RootInv, Arguments, Contexts
<1> QED
  BY <1>6, <1>7, <1>8, <1>9 DEF BuildModel

\* The tables a migration brings the database to.
LEMMA SyncTyped ==
    ASSUME TypeInv, Sync
    PROVE  NamedColumns(migration') /\ base' \in Bases \cup {NoTables}
<1>1. /\ ToSet(order) \subseteq ToSet(plugins)
      /\ NamedColumns(tables) /\ NamedColumns(migration) /\ base \in Bases \cup {NoTables}
  BY DEF TypeInv, TypeOK, NamedColumns
<1>2. CASE plugins = <<>>
  BY <1>1, <1>2 DEF Sync, command
<1>3. CASE plugins # <<>>
  <2>1. PICK b \in Bases :
          /\ base' = b
          /\ migration' \in {migration, With(WithPluginColumns(With(b, AuthTables)),
                                             [t \in Extras |-> {"id"}])}
    BY <1>3 DEF Sync
  <2> DEFINE copied == With(b, AuthTables)
             full == WithPluginColumns(copied)
             extra == [t \in Extras |-> {"id"}]
  <2>2. NamedColumns(b) /\ NamedColumns(AuthTables)
    BY <1>1, NameableSources DEF NamedColumns, AuthTables, NoTables
  <2>3. NamedColumns(copied)
    BY <2>2, WithNamed
  <2> HIDE DEF copied
  <2>4. NamedColumns(full)
    <3> DEFINE columns == UNION {p.columns : p \in ToSet(order)}
    <3>1. columns \subseteq Nameable
      BY <1>1, NameableSources
    <3>2. UserColumns \subseteq Nameable
      BY NameableSources DEF UserColumns
    <3> QED
      BY <2>3, <3>1, <3>2 DEF WithPluginColumns, NamedColumns
  <2> HIDE DEF full
  <2>5. NamedColumns(extra)
    BY NameableSources DEF NamedColumns
  <2> HIDE DEF extra
  <2>6. NamedColumns(With(full, extra))
    BY <2>4, <2>5, WithNamed
  <2> QED
    BY <1>1, <2>1, <2>6 DEF copied, full, extra
<1> QED
  BY <1>2, <1>3

\* The host and the plugins are all that is wired.
LEMMA WireTyped ==
    ASSUME TypeInv, Wire
    PROVE  ToSet(wired') \subseteq {"base"} \cup {p.name : p \in ToSet(plugins)}
<1>1. order \in Seq(ToSet(plugins))
  BY SortedIsAll DEF TypeInv, RootInv, Arguments, OrderInv, Wire, Composing
<1> DEFINE names == [i \in DOMAIN order |-> order[i].name]
           All == {"base"} \cup {p.name : p \in ToSet(plugins)}
<1>2. names \in Seq(All)
  <2>1. DOMAIN order = 1..Len(order) /\ Len(order) \in Nat
    BY <1>1
  <2>2. \A i \in DOMAIN order : order[i] \in ToSet(plugins)
    BY <1>1
  <2>3. names \in [1..Len(order) -> All]
    BY <2>1, <2>2
  <2> HIDE DEF names, All
  <2> QED
    BY <2>1, <2>3
<1>3. wired' = <<"base">> \o names
  BY DEF Wire
<1>4. <<"base">> \in Seq(All)
  OBVIOUS
<1> HIDE DEF names, All
<1>5. wired' \in Seq(All)
  BY <1>2, <1>3, <1>4
<1>6. ToSet(wired') \subseteq All
  BY <1>5 DEF ToSet
<1> QED
  BY <1>6 DEF All

\* Each step keeps what it leaves alone, and types what it composes.
LEMMA StepTyped == TypeInv /\ [Next]_vars => TypeInv'
<1> SUFFICES ASSUME TypeInv, [Next]_vars PROVE TypeInv'
  OBVIOUS
<1>1. RootInv'
  BY StepInv DEF TypeInv
<1>2. UNCHANGED <<root, plugins, consumer, overrides>>
  BY DEF Next, Resolve, BuildModel, BuildSchemas, ContractCheck, Wire, Sync, vars, arguments
<1>3. CoreColumns' = CoreColumns /\ phase' \in Phases
  BY <1>1, <1>2 DEF CoreColumns, OnSqla, RootInv, Arguments
<1>4. Nameable' = Nameable
  BY <1>2, <1>3 DEF Nameable, RelatedColumns
<1>5. ASSUME ToSet(order') \subseteq ToSet(plugins),
             CoreColumns \subseteq model', model' \subseteq Nameable,
             NamedColumns(tables'), DOMAIN schema' = Schemas,
             \A s \in Schemas : BaseFields[s] \subseteq schema'[s],
             ToSet(wired') \subseteq {"base"} \cup {p.name : p \in ToSet(plugins)},
             base' \in Bases \cup {NoTables}, NamedColumns(migration')
      PROVE  TypeInv'
  BY <1>1, <1>2, <1>3, <1>4, <1>5 DEF TypeInv, TypeOK, NamedColumns
<1>6. /\ ToSet(order) \subseteq ToSet(plugins)
      /\ CoreColumns \subseteq model /\ model \subseteq Nameable
      /\ NamedColumns(tables) /\ DOMAIN schema = Schemas
      /\ \A s \in Schemas : BaseFields[s] \subseteq schema[s]
      /\ ToSet(wired) \subseteq {"base"} \cup {p.name : p \in ToSet(plugins)}
      /\ base \in Bases \cup {NoTables} /\ NamedColumns(migration)
  BY DEF TypeInv, TypeOK, NamedColumns
<1>7. CASE Resolve
  <2>1. ToSet(order') \subseteq ToSet(plugins)
    <3>1. order' = order \/ order' \in Sorted
      BY <1>7 DEF Resolve
    <3>2. \A s \in Sorted : ToSet(s) \subseteq ToSet(plugins)
      <4>1. \A s \in Sorted : s \in Seq(ToSet(plugins))
        BY SortedIsAll DEF TypeInv, RootInv, Arguments
      <4>2. \A s \in Seq(ToSet(plugins)) : \A i \in DOMAIN s : s[i] \in ToSet(plugins)
        OBVIOUS
      <4>3. \A s : ToSet(s) = {s[i] : i \in DOMAIN s}
        BY DEF ToSet
      <4> QED
        BY <4>1, <4>2, <4>3
    <3> QED
      BY <1>6, <3>1, <3>2
  <2> QED
    BY <1>5, <1>6, <1>7, <2>1 DEF Resolve, command
<1>8. CASE BuildModel
  BY <1>5, <1>6, <1>8, BuildModelTyped DEF BuildModel, command
<1>9. CASE BuildSchemas
  <2>1. /\ DOMAIN schema' = Schemas
        /\ \A s \in Schemas : BaseFields[s] \subseteq schema'[s]
    BY <1>6, <1>9 DEF BuildSchemas, Composed
  <2> QED
    BY <1>5, <1>6, <1>9, <2>1 DEF BuildSchemas, command
<1>10. CASE ContractCheck
  BY <1>5, <1>6, <1>10 DEF ContractCheck, command
<1>11. CASE Wire
  BY <1>5, <1>6, <1>11, WireTyped DEF Wire, command
<1>12. CASE Sync
  BY <1>5, <1>6, <1>12, SyncTyped DEF Sync
<1>13. CASE UNCHANGED vars
  BY <1>5, <1>6, <1>13 DEF vars, command
<1> QED
  BY <1>7, <1>8, <1>9, <1>10, <1>11, <1>12, <1>13 DEF Next

\* The type invariant: the order names the deployment's plugins, every column of the
\* model, the tables and the migration is one that some source declares, the model has
\* the core's, the schemas have their base fields, and only the host and plugins run.
THEOREM TypesHold == Spec => []TypeOK
<1>1. Init => TypeInv
  <2> SUFFICES ASSUME Init PROVE TypeInv
    OBVIOUS
  <2>1. RootInv
    BY InitInv
  <2>2. order = <<>> /\ wired = <<>> /\ ToSet(<<>>) = {}
    BY DEF Init, ToSet
  <2>3. /\ \A t \in DOMAIN tables : tables[t] \subseteq Nameable
        /\ CoreColumns \subseteq Nameable
    BY NameableSources DEF Init, NamedColumns
  <2>4. DOMAIN BaseFields = Schemas
    BY DEF BaseFields, Schemas
  <2>5. base = NoTables /\ migration = NoTables /\ DOMAIN NoTables = {}
    BY DEF Init, NoTables
  <2> QED
    BY <2>1, <2>2, <2>3, <2>4, <2>5 DEF Init, TypeInv, TypeOK, Phases
<1>2. TypeInv => TypeOK
  BY DEF TypeInv
<1> QED
  BY <1>1, <1>2, StepTyped, PTL DEF Spec
==============================================================================

----------------------------- MODULE Composition -----------------------------
(***************************************************************************)
(* How a composition root (SQLAlchemyAuth, BeanieAuth) or a storage        *)
(* context (SqlaStorageContext, BeanieStorageContext) is constructed from  *)
(* its plugins: dependency order, user model and tables, schemas, contract *)
(* check, hooks and routers.  Every step may refuse the deployment; the    *)
(* question is what a root that did construct can rely on.  The initial    *)
(* states are the deployments, in a process whose shared MetaData holds    *)
(* what an earlier construction left; a behaviour is one construction, and *)
(* then the migration that `blenx-auth migrate sync` would generate for    *)
(* the application around it.                                              *)
(***************************************************************************)
EXTENDS Naturals, Sequences, FiniteSets, SequencesExt

CONSTANTS
    Roots,         \* the classes that are constructed
    Deployments,   \* sequences of [name, depends_on, mixins, columns, tables] records
    Consumers,     \* the consumer's own mixins, by kind
    Overrides,     \* functions from class names to the class that replaces them
    Leftovers,     \* what AuthBase.metadata may hold before: tables with their columns
    Bases          \* the tables of the consumer's own Base (none without --base)

(***************************************************************************)
(* A mixin class is [id, name, declared, fields]: its identity, its        *)
(* __name__, the fields the collision check reads off it and those it      *)
(* contributes.  They are the same for a pydantic model; of a plain class  *)
(* the check reads its own annotations, while what it inherits from other  *)
(* plain classes, and a column it assigns without an annotation, is        *)
(* contributed as well.  No class of a deployment is a subclass of another *)
(* one there.  A plugin's mixins map each kind to the set of at most one   *)
(* class it contributes; columns and tables are the names of its           *)
(* sqla_columns and sqla_tables, which only a storage context reads.       *)
(***************************************************************************)
Kinds == {"table", "read", "create", "update"}

Contexts == {"SqlaStorageContext", "BeanieStorageContext"}

ASSUME RootsAssumption == Roots \subseteq Contexts \cup {"SQLAlchemyAuth", "BeanieAuth"}
ASSUME DeploymentsAssumption ==
    \A ps \in Deployments :
        /\ ps \in Seq(ToSet(ps))
        /\ \A i, j \in DOMAIN ps : ps[i].name = ps[j].name => i = j

VARIABLES
    root, plugins, consumer, overrides,   \* what is constructed, the arguments
    phase,     \* what __init__ does next
    order,     \* the resolved plugins
    tables,    \* AuthBase.metadata: table name -> columns
    model,     \* the columns or fields of the User model
    schema,    \* the fields of each composed schema
    wired,     \* the order in which hooks and routers run: "base", then plugins
    base,      \* the consumer's Base given to the migration command
    migration  \* the tables it asks Alembic to bring the database to

arguments == <<root, plugins, consumer, overrides>>
command == <<base, migration>>
vars == <<arguments, phase, order, tables, model, schema, wired, command>>

Schemas == {"UserCreate", "UserRead", "UserUpdate", "UserAdminUpdate"}
Phases == {"resolve", "model", "schemas", "contract", "wire", "ready",
           "dependency_error", "cycle_error", "field_error", "table_error",
           "contract_error", "no_plugins", "sync_error", "synced"}

OnSqla == root \in {"SQLAlchemyAuth", "SqlaStorageContext"}

\* The core columns and fields that the flows under discussion touch.  The Beanie
\* User document has no display_name.
CoreColumns == {"id", "email", "hashed_password", "is_active"}
                 \cup IF OnSqla THEN {"display_name"} ELSE {}

\* The tables of RefreshToken and OAuthAccount.
Related == {"refresh_tokens", "oauth_account"}
RelatedColumns == {"id", "user_id"}
NoTables == [t \in {} |-> {}]

BaseFields == [UserCreate |-> {"email", "password", "display_name"},
               UserRead |-> {"id", "email", "display_name", "is_active"},
               UserUpdate |-> {"display_name"},
               UserAdminUpdate |-> {"is_active"}]

\* The column names there can be: the core's, those of any table that was there, and
\* those of the root's plugins, of their and the consumer's classes and the overrides.
Nameable ==
    LET classes == (UNION {p.mixins["table"] : p \in ToSet(plugins)}) \cup consumer["table"]
                     \cup {overrides[n] : n \in DOMAIN overrides}
        present == UNION {{ts[t] : t \in DOMAIN ts} : ts \in Leftovers \cup Bases}
    IN CoreColumns \cup {"display_name"} \cup RelatedColumns \cup (UNION present)
         \cup (UNION {p.columns : p \in ToSet(plugins)}) \cup (UNION {m.fields : m \in classes})

TypeOK ==
    /\ phase \in Phases
    /\ ToSet(order) \subseteq ToSet(plugins)
    /\ CoreColumns \subseteq model /\ model \subseteq Nameable
    /\ \A t \in DOMAIN tables : tables[t] \subseteq Nameable
    /\ DOMAIN schema = Schemas
    /\ \A s \in Schemas : BaseFields[s] \subseteq schema[s]
    /\ ToSet(wired) \subseteq {"base"} \cup {p.name : p \in ToSet(plugins)}
    /\ base \in Bases \cup {NoTables}
    /\ \A t \in DOMAIN migration : migration[t] \subseteq Nameable

Init ==
    /\ root \in Roots
    /\ plugins \in Deployments /\ consumer \in Consumers /\ overrides \in Overrides
    /\ root = "SQLAlchemyAuth" => \A k \in Kinds : consumer[k] = {}
    /\ root \in Contexts => DOMAIN overrides = {}
    /\ tables \in Leftovers
    /\ phase = "resolve"
    /\ order = <<>>
    /\ model = CoreColumns
    /\ schema = BaseFields
    /\ wired = <<>>
    /\ base = NoTables /\ migration = NoTables

------------------------------------------------------------------------------
(* Ordering. *)

Provided == {p.name : p \in ToSet(plugins)}

MissingDependency == \E p \in ToSet(plugins) : ~(p.depends_on \subseteq Provided)

\* Mutant: the order of registration.
Sorted_AsRegistered == {plugins}

\* TopologicalSorter.static_order: some order with every dependency first, none
\* if there is a cycle.
Sorted ==
    {s \in SetToSeqs(ToSet(plugins)) :
        \A i, j \in DOMAIN s : s[i].name \in s[j].depends_on => i < j}

Resolve ==
    /\ phase = "resolve"
    /\ IF MissingDependency THEN phase' = "dependency_error" /\ UNCHANGED order
       ELSE LET orders == Sorted
            IN \/ orders = {} /\ phase' = "cycle_error" /\ UNCHANGED order
               \/ order' \in orders /\ phase' = "model"
    /\ UNCHANGED <<arguments, tables, model, schema, wired, command>>

------------------------------------------------------------------------------
(* Fields. *)

Override(m) == IF m.name \in DOMAIN overrides THEN overrides[m.name] ELSE m

\* collect_fn: the plugins' mixins of one kind, then the consumer's, each replaced
\* by the override for its class name; a class met twice counts once.
Collect(k) == {Override(m) : m \in (UNION {p.mixins[k] : p \in ToSet(order)}) \cup consumer[k]}

FieldsOf(ms) == UNION {m.fields : m \in ms}

\* _declared_field_names
DeclaredBy(ms) == UNION {m.declared : m \in ms}

\* Mutant: no field is reserved.
Reserved_Nothing(k) == {}

Reserved(k) == IF k \in {"create", "update"} THEN {"email", "password"} ELSE {}

\* Two mixins declare one field.  The owner of a field is remembered by the class
\* name, so two classes of one name do not collide.
Collide(m, n) == m.declared \cap n.declared # {} /\ m.name # n.name

\* check_no_field_collisions
FieldsClash(k, ms) ==
    \/ DeclaredBy(ms) \cap Reserved(k) # {}
    \/ \E m, n \in ms : Collide(m, n)

\* _owner_groups: the core's columns, those of each plugin, the consumer's.
Groups ==
    [g \in 0..Len(order) + 1 |->
        IF g = 0 THEN CoreColumns
        ELSE IF g <= Len(order) THEN order[g].columns ELSE FieldsOf(consumer["table"])]

Columns == UNION {Groups[g] : g \in DOMAIN Groups}

\* build_composed_user_table: two groups declare one column.
ColumnsClash == \E g, h \in DOMAIN Groups : g # h /\ Groups[g] \cap Groups[h] # {}

Extras == UNION {p.tables : p \in ToSet(order)}

\* Mutant: the tables of the last composition stay.
TornDown_Nothing == tables

\* registry.dispose(), and every table is removed from the metadata.
TornDown == NoTables

\* Tables ts as they are, and those of more that are not among them.
With(ts, more) ==
    [t \in DOMAIN ts \cup DOMAIN more |-> IF t \in DOMAIN ts THEN ts[t] ELSE more[t]]

RelatedTables == [t \in Related |-> RelatedColumns]

\* SqlaStorageContext: a user table that is there is taken as it is; otherwise
\* collisions are found before any table is made.  Extra tables yield to those of
\* their name, the related models do not.
ComposeContext ==
    LET named == "user" \in DOMAIN TornDown
        made  == With(With(TornDown, [t \in {"user"} |-> Columns]),
                      [t \in Extras |-> {"id"}])
    IN \/ /\ ~named /\ ColumnsClash
          /\ phase' = "field_error" /\ tables' = TornDown /\ UNCHANGED model
       \/ /\ named \/ ~ColumnsClash
          /\ tables' = IF "refresh_tokens" \in DOMAIN made THEN made
                       ELSE With(made, RelatedTables)
          /\ model' = made["user"]
          /\ phase' = IF Related \cap DOMAIN made # {} THEN "table_error" ELSE "ready"

\* build_sqla_models: the related models are mapped before the collision check.
ComposeModels ==
    LET made == With(TornDown, RelatedTables)
    IN IF Related \cap DOMAIN TornDown # {}
       THEN phase' = "table_error" /\ tables' = TornDown /\ UNCHANGED model
       ELSE \/ /\ FieldsClash("table", Collect("table"))
               /\ phase' = "field_error" /\ tables' = made /\ UNCHANGED model
            \/ /\ ~FieldsClash("table", Collect("table"))
               /\ model' = CoreColumns \cup FieldsOf(Collect("table"))
               /\ tables' = With(made, [t \in {"user"} |-> model'])
               /\ phase' = "schemas"

\* build_beanie_model
ComposeDocument ==
    /\ \/ FieldsClash("table", Collect("table")) /\ phase' = "field_error" /\ UNCHANGED model
       \/ /\ ~FieldsClash("table", Collect("table"))
          /\ model' = CoreColumns \cup FieldsOf(Collect("table"))
          /\ phase' = IF root \in Contexts THEN "ready" ELSE "schemas"
    /\ UNCHANGED tables

BuildModel ==
    /\ phase = "model"
    /\ CASE root = "SqlaStorageContext" -> ComposeContext
         [] root = "SQLAlchemyAuth" -> ComposeModels
         [] root \in {"BeanieAuth", "BeanieStorageContext"} -> ComposeDocument
    /\ UNCHANGED <<arguments, order, schema, wired, command>>

\* The mixins of each schema; the Beanie root gives the admin schema none.
MixinsOf(s) ==
    CASE s = "UserCreate" -> Collect("create")
      [] s = "UserRead" -> Collect("read")
      [] s = "UserUpdate" -> Collect("update")
      [] s = "UserAdminUpdate" -> IF OnSqla THEN Collect("update") ELSE {}

KindOf == [UserCreate |-> "create", UserRead |-> "read",
           UserUpdate |-> "update", UserAdminUpdate |-> "update"]

\* Mutant: the base schema is left out of the bases.
Composed_MixinsOnly(s) == FieldsOf(MixinsOf(s))

Composed(s) == BaseFields[s] \cup FieldsOf(MixinsOf(s))

\* build_pydantic_model, four times.
BuildSchemas ==
    LET clash == \E s \in Schemas : FieldsClash(KindOf[s], MixinsOf(s))
    IN /\ phase = "schemas"
       /\ \/ clash /\ phase' = "field_error" /\ UNCHANGED schema
          \/ /\ ~clash
             /\ schema' = [s \in Schemas |-> Composed(s)]
             /\ phase' = "contract"
       /\ UNCHANGED <<arguments, order, tables, model, wired, command>>

\* Fields run_contract_check does not look for, by the schemas it is given.
Unchecked == [UserRead |-> {}, UserCreate |-> {"password"}, UserUpdate |-> {"password", "email"}]

ContractHolds == \A s \in DOMAIN Unchecked : schema[s] \ Unchecked[s] \subseteq model

ContractCheck ==
    /\ phase = "contract"
    /\ phase' = IF ContractHolds THEN "wire" ELSE "contract_error"
    /\ UNCHANGED <<arguments, order, tables, model, schema, wired, command>>

\* merge_plugin_hooks and build_plugin_routers walk the resolved plugins.
Wire ==
    /\ phase = "wire"
    /\ phase' = "ready"
    /\ wired' = <<"base">> \o [i \in DOMAIN order |-> order[i].name]
    /\ UNCHANGED <<arguments, order, tables, model, schema, command>>

------------------------------------------------------------------------------
(* The migration command. *)

\* Mutant: the composed tables are not read from the application's root.
AuthTables_None == NoTables

\* _auth_metadata: the MetaData behind the user model, which a document has not.
AuthTables == IF OnSqla THEN tables ELSE NoTables

\* CORE_USER_COLUMNS, whatever the backend.
UserColumns == CoreColumns \cup {"display_name"}

\* What a plugin declares as columns joins the user table under names that are
\* free there; without a user table one is composed, if no two groups collide.
WithPluginColumns(ts) ==
    LET columns == UNION {p.columns : p \in ToSet(order)}
    IN IF columns = {} THEN ts
       ELSE [t \in DOMAIN ts \cup {"user"} |->
                IF t # "user" THEN ts[t]
                ELSE columns \cup IF "user" \in DOMAIN ts THEN ts["user"] ELSE UserColumns]

PluginColumnsClash ==
    \E p \in ToSet(order) :
        \/ p.columns \cap UserColumns # {}
        \/ \E q \in ToSet(order) : q # p /\ p.columns \cap q.columns # {}

\* migrate sync, up to the metadata Alembic compares the database with: a table of
\* the consumer's Base hides the root's table of the same name.
Sync ==
    /\ phase = "ready"
    /\ IF plugins = <<>> THEN phase' = "no_plugins" /\ UNCHANGED command
       ELSE \E b \in Bases :
              LET copied == With(b, AuthTables)
                  clash  == "user" \notin DOMAIN copied /\ PluginColumnsClash
              IN /\ base' = b
                 /\ phase' = IF clash THEN "sync_error" ELSE "synced"
                 /\ migration' = IF clash THEN migration
                                 ELSE With(WithPluginColumns(copied), [t \in Extras |-> {"id"}])
    /\ UNCHANGED <<arguments, order, tables, model, schema, wired>>

Next == Resolve \/ BuildModel \/ BuildSchemas \/ ContractCheck \/ Wire \/ Sync

Spec == Init /\ [][Next]_vars

------------------------------------------------------------------------------
(* Properties of a root that constructed. *)

Before(a, b) == \E i, j \in DOMAIN wired : i < j /\ wired[i] = a /\ wired[j] = b

\* Every plugin's hooks and routers come after those of all it depends on, none is
\* lost, and the host's own hooks come first.
DependenciesFirst ==
    phase = "ready" /\ root \notin Contexts =>
        \A p \in ToSet(plugins) :
            Before("base", p.name) /\ \A d \in p.depends_on : Before(d, p.name)

\* What an update mixin contributes without declaring it: no name is reserved here.
Hidden == FieldsOf(Collect("update")) \ DeclaredBy(Collect("update"))

\* Every field a client may send has a column to go to: register's extra fields
\* and both updates never meet UserModelMappingError.  The contract check skips
\* email and password and never sees the admin schema; the reserved names and the
\* shared mixins must make up for it, and do but for a password that an update mixin
\* contributes without declaring it.
AcceptedFieldsAreStored ==
    phase = "ready" /\ root \notin Contexts =>
        /\ schema["UserCreate"] \ BaseFields["UserCreate"] \subseteq model
        /\ schema["UserUpdate"] \cup schema["UserAdminUpdate"]
              \subseteq model \cup (Hidden \cap {"password"})

\* What create_all and migrations see once a construction got past its model, or
\* ended in an error there, is this deployment's own: no table or column of an
\* earlier construction passes for one of it, every contributed one is there, and
\* with a collision no user table is.
MetadataIsOwn ==
    OnSqla =>
        /\ phase \in {"schemas", "contract", "contract_error", "wire", "ready", "synced"} =>
              /\ DOMAIN tables = {"user"} \cup Related
                    \cup IF root \in Contexts THEN UNION {p.tables : p \in ToSet(plugins)} ELSE {}
              /\ tables["user"] = CoreColumns \cup
                    IF root \in Contexts
                    THEN (UNION {p.columns : p \in ToSet(plugins)}) \cup FieldsOf(consumer["table"])
                    ELSE FieldsOf(Collect("table"))
        /\ phase = "field_error" =>
              DOMAIN tables \subseteq IF root \in Contexts THEN {} ELSE {"user"} \cup Related

\* The migration and the running root agree, although one is composed from the
\* mixins and the other from the metadata, the consumer's Base and the plugins'
\* own columns: every column the services write to and every field a client may
\* send is migrated, with the exception of AcceptedFieldsAreStored, and so is every
\* table that refers to the user, except where the Base has a table of that name.
MigrationServesRoot ==
    phase = "synced" /\ OnSqla =>
        /\ ({"user"} \cup Related) \ DOMAIN base \subseteq DOMAIN migration
        /\ "user" \notin DOMAIN base =>
              /\ model \subseteq migration["user"]
              /\ root \notin Contexts =>
                    schema["UserUpdate"] \cup schema["UserAdminUpdate"]
                       \subseteq migration["user"] \cup (Hidden \cap {"password"})
==============================================================================

---------------------------- MODULE MCComposition ----------------------------
(* Composition on small deployments: three plugins with every choice of      *)
(* dependencies and mixins below.                                            *)
EXTENDS Composition, TLC

Class(id, name, fields) ==
    [id |-> id, name |-> name, declared |-> fields, fields |-> fields]

\* A plain class with a base that is no mixin itself.
Heir(id, name, own, inherited) ==
    [id |-> id, name |-> name, declared |-> own, fields |-> own \cup inherited]

Nothing == [k \in Kinds |-> {}]

Everywhere(c) == [k \in Kinds |-> {c}]

Only(k, c) == [Nothing EXCEPT ![k] = {c}]

Profile == Class(1, "Profile", {"nickname"})
OtherProfile == Class(2, "Profile", {"nickname", "phone"})   \* same name, other class
Contact == Class(3, "Contact", {"phone"})
Handle == Class(4, "Handle", {"nickname"})                   \* Profile's field again
Credentials == Class(5, "Credentials", {"password"})

Phone == Only("table", Contact)
Mail == Only("table", Class(6, "Mail", {"email"}))           \* a core column again
Avatar == Heir(11, "Avatar", {"avatar"}, {"nickname"})       \* Profile's field, unseen
Secret == Heir(12, "Secret", {}, {"password"})               \* a reserved one, unseen

\* make_birthday_plugin: no create mixin, a class for each of the others.
Birthday == [table |-> {Class(8, "BirthdayMixin", {"birthday"})},
             read |-> {Class(9, "BirthdayReadMixin", {"birthday"})},
             update |-> {Class(10, "BirthdayUpdateMixin", {"birthday"})}, create |-> {}]

Mixins == {Nothing, Birthday, Everywhere(Profile), Phone, Mail, Only("read", Contact),
           Everywhere(Handle), Everywhere(OtherProfile), Everywhere(Avatar),
           Only("update", Credentials), Only("update", Secret)}

DependsOn == {{}, {"a"}, {"b"}, {"b", "c"}, {"absent"}}

\* A plugin offers its columns to either way of composing; two bring a table.
Plugin(n, d, m) ==
    [name |-> n, depends_on |-> d, mixins |-> m, columns |-> FieldsOf(m["table"]),
     tables |-> IF m = Phone THEN {"codes"}
                ELSE IF m = Everywhere(Handle) THEN {"oauth_account"} ELSE {}]

MCDeployments ==
    {<<>>} \cup
    {<<Plugin("a", d1, m1), Plugin("b", d2, m2), Plugin("c", {}, m3)>> :
        d1, d2 \in DependsOn, m1, m2 \in Mixins,
        m3 \in {Nothing, Phone, Everywhere(Handle), Everywhere(OtherProfile)}}

MCConsumers == {Nothing, Only("table", Class(7, "Names", {"display_name"}))}

\* None, one class for another, and one that inherits what it replaces.
MCOverrides == {[n \in {} |-> Profile], [n \in {"Handle"} |-> Profile],
                [n \in {"Handle"} |-> Avatar]}

\* The static models, or a composition with another plugin's column and table.
MCLeftovers ==
    {[t \in {"user", "refresh_tokens", "oauth_account"} |-> {"id"}],
     [t \in {"user", "old_codes"} |-> {"id", "old"}]}

\* No --base, a Base with a table of its own, and one that takes a name.
MCBases ==
    {NoTables, [t \in {"orders"} |-> {"id"}], [t \in {"refresh_tokens"} |-> {"id"}],
     [t \in {"user", "orders"} |-> {"id"}]}
==============================================================================

------------------------------ MODULE MCCatalog ------------------------------
(* Instances of Catalog for TLC, after config-govau.yml and config-sample.yml. *)
EXTENDS Catalog

Spelled == [postgres |-> "postgres", Postgres |-> "postgres", mysql |-> "mysql",
            MySQL |-> "mysql", mariadb |-> "mariadb", aurora |-> "aurora", oracle |-> "oracle"]

Plan(id, engine, shared) ==
    [id |-> id, engine |-> engine, shared |-> shared, class |-> ~shared]
Service(id, plans) == [id |-> id, updateable |-> TRUE, bindable |-> TRUE, plans |-> plans]

SharedPg == Plan("shared-pg", "postgres", TRUE)
SmallMySQL == Plan("small", "MySQL", FALSE)
LargeMySQL == Plan("large", "MySQL", FALSE)

\* Two services as they are deployed.
Govau ==
    << Service("pg", <<SharedPg, Plan("small-pg", "postgres", FALSE)>>),
       Service("my", <<Plan("shared-my", "mysql", TRUE), SmallMySQL, LargeMySQL,
                       Plan("maria", "mariadb", FALSE)>>) >>

\* The small plan is withdrawn, Aurora added.
Withdrawn ==
    << Service("pg", <<SharedPg>>),
       Service("my", <<LargeMySQL, Plan("au", "aurora", FALSE)>>) >>

\* The engines are spelled another way, or the plan made into another.
Respelled ==
    << Service("pg", <<Plan("shared-pg", "Postgres", TRUE)>>),
       Service("my", <<Plan("small", "mysql", FALSE), LargeMySQL>>) >>
Changed ==
    << Service("pg", <<Plan("shared-pg", "mysql", TRUE)>>),
       Service("my", <<Plan("small", "mariadb", FALSE), Plan("large", "mysql", TRUE),
                       Plan("au", "mysql", FALSE)>>) >>

\* A second service under the ID of the first.
Doubled ==
    << Service("pg", <<SharedPg>>),
       Service("my", <<LargeMySQL, SmallMySQL>>),
       Service("my", <<Plan("small", "postgres", FALSE), Plan("au", "aurora", FALSE)>>) >>

\* Not supported.
Rejected == << Service("pg", <<SharedPg, Plan("small", "oracle", FALSE)>>),
               Service("my", <<SmallMySQL>>) >>

DeployedCatalogs == {Govau, Withdrawn, Respelled, Changed, Doubled, Rejected}
SecurityGroups == {"postgres", "mysql", "mariadb", "aurora"}
=============================================================================

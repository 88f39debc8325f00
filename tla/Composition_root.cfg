SPECIFICATION Spec
CHECK_DEADLOCK FALSE
CONSTANTS
    Roots = {"SQLAlchemyAuth", "BeanieAuth", "SqlaStorageContext", "BeanieStorageContext"}
    Deployments <- MCDeployments
    Consumers <- MCConsumers
    Overrides <- MCOverrides
    Leftovers <- MCLeftovers
    Bases <- MCBases
INVARIANTS
    TypeOK
    DependenciesFirst
    AcceptedFieldsAreStored
    MetadataIsOwn
    MigrationServesRoot

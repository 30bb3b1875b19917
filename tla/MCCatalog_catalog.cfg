CONSTANTS
    Projects = {1, 2}
    Branches = {1, 2}
    Nodes = {1, 2, 3}
    Maintainers = {c1, c2}
    Dockerfiles <- ContentSet
    FromLines = {"from"}
    ProjectRegistries = {2}
    InputStatuses = {"active"}
    None = None
    Registries = {1, 2}
    Credentials = {1, 2}
    Admins = {a1, a2}
    RegistryInputs <- InputSet
    NoCredential = NoCredential
    CheckResults = {"available"}
    Builds = {1, 2}
    Builders = {u1}
SPECIFICATION CatalogSpec
INVARIANTS CatalogTypeOK GraphConnected HeadsAreLast AnswersAreSound
INVARIANTS OneDefaultAtRest CredentialStored TaskRecords NoTaskOnDeletedRegistry
PROPERTIES ArchiveIsFinal DecisionStands
SYMMETRY CatalogPerms
\* The instance stops when its identifiers are used up.
CHECK_DEADLOCK FALSE

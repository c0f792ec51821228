SPECIFICATION Spec
CONSTANTS
    a = a
    b = b
    c = c
    r = r
    w1 = w1
    w2 = w2
    w3 = w3
    app = app
    NoFile = NoFile
    Files <- MCFiles
    Classes <- MCClasses
    Fields <- MCFields
    ClassVars = {"@@v"}
    SuperClass <- MCSuperClass
    Mixins <- MCMixins
    Members <- MCMembers
    SingletonOf <- MCSingleton
    HomeOf <- MCHome
    Program <- ReopensBase
    FieldsIn <- UnresolvedIn
    Workers = {w1, w2, w3}
    Rbi = {r}
    Strata <- OneStratum
    GemOf <- OneGem
INVARIANT IndexIsDeterministic

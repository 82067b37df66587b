SPECIFICATION Spec
CONSTANTS
    m1 = m1
    m2 = m2
    a1 = a1
    a2 = a2
    operator = operator
    net1 = net1
    net2 = net2
    host = host
    FabricTag <- MCFabricTag
    NoInterface = NoInterface
    NoOption = NoOption
    NoAddress = NoAddress
    NoRoutes = NoRoutes
    NoTag = NoTag
    Undefined = Undefined
    AdminRackId <- MCAdminRackId
    ToServer <- MCToServer
    Hosts <- MCHosts
    Servers <- MCServers
    Exchanges <- MCExchanges
    Menus <- MCMenus
    Nothing = Nothing
INVARIANTS
    ArgumentsAsDocumented AdminInterfaceNamed InterfacesAgree
    AnswerOrderHarmless AdminNicCarriesTag
    CircuitIdFound ReplyRetracesRequest ReplySurvivesTheWire
    NamesApart NetworkingWithinLimit

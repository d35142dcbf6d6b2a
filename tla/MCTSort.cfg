CONSTANTS
    NodeList <- FourNodes
    EdgeLists <- FewEdges
SPECIFICATION TSortSpec
PROPERTY
    SortFollowsOrder
    SortReturns

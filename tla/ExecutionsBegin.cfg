SPECIFICATION PortfolioSpec
CONSTANTS
  Created = {"EVALUATING"}
INVARIANTS ExecutionsBegin
